---- MODULE Spec2Model ----
(***************************************************************************)
(* Verification model of the big-AGI client generation pipeline.           *)
(*                                                                         *)
(* Part 1: the fetch retrier (src/server/trpc/trpc.fetchers.retrier.ts):   *)
(*   selectRetryProfile and createRetryablePromise.                        *)
(* Part 2: the accumulator-level chat generation                           *)
(*   (src/modules/aix/client/aix.client.ts, _aixChatGenerateContent_LL).   *)
(***************************************************************************)
EXTENDS Integers, Sequences, FiniteSets, TLC

(***************************************************************************)
(* Bounds of the model.                                                    *)
(***************************************************************************)
\* Math.random() is sampled on a grid: (Math.random() * 2 - 1) takes the
\* values k / JitterSteps for k in -JitterSteps .. JitterSteps.
JitterSteps == 1

Min(a, b) == IF a < b THEN a ELSE b
Max(a, b) == IF a > b THEN a ELSE b

(***************************************************************************)
(* Error messages.  A message is a tuple of characters, so that the        *)
(* denylist tests (regular expressions and String.includes) are computed   *)
(* character by character, as the JavaScript engine computes them.         *)
(***************************************************************************)
Messages ==
  << <<"T","o","o"," ","M","a","n","y"," ","R","e","q","u","e","s","t","s">>,
     <<"Y","o","u"," ","e","x","c","e","e","d","e","d"," ","y","o","u","r"," ","c","u","r","r","e","n","t"," ","q","u","o","t","a">>,
     <<"Q","U","O","T","A"," ","e","x","c","e","e","d","e","d">>,
     <<"B","i","l","l","i","n","g"," ","h","a","r","d"," ","l","i","m","i","t"," ","r","e","a","c","h","e","d">>,
     <<"R","e","q","u","e","s","t"," ","t","o","o"," ","l","a","r","g","e"," ","f","o","r"," ","o","3">>,
     <<"L","i","m","i","t"," ","3","0","0","0","0",","," ","R","e","q","u","e","s","t","e","d"," ","5","6","1","0","8">>,
     <<"L","i","m","i","t"," ","r","e","a","c","h","e","d",","," ","R","e","q","u","e","s","t","e","d"," ","5">>,
     <<"r","a","t","e"," ","l","i","m","i","t"," ","o","f"," ","0"," ","i","n","p","u","t"," ","t","o","k","e","n","s"," ","p","e","r"," ","m","i","n","u","t","e">>,
     <<"R","a","t","e"," ","L","i","m","i","t"," ","o","f"," ","0"," ","i","n","p","u","t"," ","t","o","k","e","n","s"," ","p","e","r"," ","m","i","n","u","t","e">>,
     <<"I","n","s","u","f","f","i","c","i","e","n","t"," ","b","a","l","a","n","c","e"," ","o","r"," ","n","o"," ","r","e","s","o","u","r","c","e"," ","p","a","c","k","a","g","e">>,
     <<"i","n","s","u","f","f","i","c","i","e","n","t"," ","b","a","l","a","n","c","e"," ","o","r"," ","n","o"," ","r","e","s","o","u","r","c","e"," ","p","a","c","k","a","g","e">>,
     <<"R","a","t","e"," ","l","i","m","i","t"," ","r","e","a","c","h","e","d">> >>
PatQuota == <<"q","u","o","t","a">>
PatBilling == <<"b","i","l","l","i","n","g">>
PatRequestTooLarge == <<"r","e","q","u","e","s","t"," ","t","o","o"," ","l","a","r","g","e">>
PatLimit == <<"l","i","m","i","t"," ">>
PatRequested == <<","," ","r","e","q","u","e","s","t","e","d"," ">>
PatZeroRateLimit == <<"r","a","t","e"," ","l","i","m","i","t"," ","o","f"," ","0"," ","i","n","p","u","t"," ","t","o","k","e","n","s"," ","p","e","r"," ","m","i","n","u","t","e">>
PatInsufficientBalance == <<"I","n","s","u","f","f","i","c","i","e","n","t"," ","b","a","l","a","n","c","e"," ","o","r"," ","n","o"," ","r","e","s","o","u","r","c","e"," ","p","a","c","k","a","g","e">>
UpperCase == <<"A","B","C","D","E","F","G","H","I","J","K","L","M","N","O","P","Q","R","S","T","U","V","W","X","Y","Z">>
LowerCase == <<"a","b","c","d","e","f","g","h","i","j","k","l","m","n","o","p","q","r","s","t","u","v","w","x","y","z">>
Digits == {"0","1","2","3","4","5","6","7","8","9"}


\* String.prototype.toLowerCase on one character (the /i flag of a RegExp).
ToLower(c) ==
  IF \E i \in 1..Len(UpperCase) : UpperCase[i] = c
  THEN LowerCase[CHOOSE i \in 1..Len(UpperCase) : UpperCase[i] = c]
  ELSE c

\* The pattern p occurs in s at position i, compared exactly.
OccursAt(s, p, i) ==
  /\ i >= 1
  /\ i + Len(p) - 1 <= Len(s)
  /\ \A k \in 1..Len(p) : s[i + k - 1] = p[k]

\* The (lower-case) pattern p occurs in s at position i, ignoring letter case.
OccursAtIgnoreCase(s, p, i) ==
  /\ i >= 1
  /\ i + Len(p) - 1 <= Len(s)
  /\ \A k \in 1..Len(p) : ToLower(s[i + k - 1]) = p[k]

\* String.prototype.includes(p): case-sensitive substring test.
Includes(s, p) == \E i \in 1..Len(s) : OccursAt(s, p, i)

\* RegExp /p/i .test(s) for a literal p.
TestIgnoreCase(s, p) == \E i \in 1..Len(s) : OccursAtIgnoreCase(s, p, i)

\* RegExp /limit \d+, requested \d+/i .test(s).
TestLimitRequested(s) ==
  \E i \in 1..Len(s) : \E n \in 1..Len(s) :
    /\ OccursAtIgnoreCase(s, PatLimit, i)
    /\ i + Len(PatLimit) + n - 1 <= Len(s)
    /\ \A k \in 0..(n - 1) : s[i + Len(PatLimit) + k] \in Digits
    /\ OccursAtIgnoreCase(s, PatRequested, i + Len(PatLimit) + n)
    /\ i + Len(PatLimit) + n + Len(PatRequested) <= Len(s)
    /\ s[i + Len(PatLimit) + n + Len(PatRequested)] \in Digits

(***************************************************************************)
(* The retry profiles and the classifier.                                  *)
(***************************************************************************)
\* Variant of RETRY_PROFILES: the server profile starts at four seconds.
RETRY_PROFILES_SlowServer ==
  [ network |-> [ baseDelayMs |-> 500,  maxDelayMs |-> 8000,
                  jitterFactor |-> 25,  maxAttempts |-> 3 ],
    server  |-> [ baseDelayMs |-> 4000, maxDelayMs |-> 10000,
                  jitterFactor |-> 50,  maxAttempts |-> 4 ] ]

\* jitterFactor is kept in hundredths: 25 is 0.25, 50 is 0.5.
RETRY_PROFILES ==
  [ network |-> [ baseDelayMs |-> 500,  maxDelayMs |-> 8000,
                  jitterFactor |-> 25,  maxAttempts |-> 3 ],
    server  |-> [ baseDelayMs |-> 1000, maxDelayMs |-> 10000,
                  jitterFactor |-> 50,  maxAttempts |-> 4 ] ]

\* The value null of selectRetryProfile; a profile is named by its key.
NoProfile == "null"

\* The labels of _429_RETRY_DENYLIST, in list order.
DenyLabels ==
  << "quota/billing", "request-too-large",
     "zero-rate-limit (no model access)", "insufficient-balance (Z.ai)" >>

\* Variant of DenyTest: the first pattern without its /i flag.
DenyTest_CaseSensitive(i, message) ==
  CASE i = 1 -> Includes(message, PatQuota) \/ Includes(message, PatBilling)
    [] i = 2 -> TestIgnoreCase(message, PatRequestTooLarge) \/ TestLimitRequested(message)
    [] i = 3 -> Includes(message, PatZeroRateLimit)
    [] i = 4 -> Includes(message, PatInsufficientBalance)

\* The test of the i-th entry of _429_RETRY_DENYLIST applied to a message:
\* a string is tested with includes, a RegExp with test.
DenyTest(i, message) ==
  CASE i = 1 -> TestIgnoreCase(message, PatQuota) \/ TestIgnoreCase(message, PatBilling)
    [] i = 2 -> TestIgnoreCase(message, PatRequestTooLarge) \/ TestLimitRequested(message)
    [] i = 3 -> Includes(message, PatZeroRateLimit)
    [] i = 4 -> Includes(message, PatInsufficientBalance)

\* _429_RETRY_DENYLIST.find(...): the index of the first matching entry, 0
\* when find returns undefined.
denyMatch(message) ==
  IF \E i \in 1..Len(DenyLabels) : DenyTest(i, message)
  THEN CHOOSE i \in 1..Len(DenyLabels) :
         /\ DenyTest(i, message)
         /\ \A k \in 1..(i - 1) : ~DenyTest(k, message)
  ELSE 0

\* denyMatch of every message of the model, computed once.
denyMatchOf == [m \in 1..Len(Messages) |-> denyMatch(Messages[m])]

retryCodes == {503, 502}

\* An error value.  kind is the class of the thrown value; httpStatus 0 is
\* an absent (undefined) status; message indexes Messages.
NoError == [kind |-> "none", category |-> "none", httpStatus |-> 0, message |-> 0]

\* Variant of selectRetryProfile: the status is read whatever the category.
selectRetryProfile_AnyCategory(e) ==
  IF e.kind # "TRPCFetcherError" THEN NoProfile
  ELSE IF e.category = "connection" THEN "network"
  ELSE IF e.httpStatus # 0
    THEN IF e.httpStatus = 429
           THEN IF denyMatchOf[e.message] # 0 THEN NoProfile ELSE "server"
           ELSE IF e.httpStatus \in retryCodes THEN "server" ELSE NoProfile
    ELSE NoProfile

selectRetryProfile(e) ==
  IF e.kind # "TRPCFetcherError" THEN NoProfile
  ELSE IF e.category = "connection" THEN "network"
  ELSE IF e.category = "http" /\ e.httpStatus # 0
    THEN IF e.httpStatus = 429
           THEN IF denyMatchOf[e.message] # 0 THEN NoProfile ELSE "server"
           ELSE IF e.httpStatus \in retryCodes THEN "server" ELSE NoProfile
    ELSE NoProfile

(***************************************************************************)
(* The values the operation may throw.                                     *)
(***************************************************************************)
MessageIds == 1..Len(Messages)

FetcherErrors ==
  \* connection failures carry no HTTP status
  { [kind |-> "TRPCFetcherError", category |-> "connection", httpStatus |-> 0, message |-> m] :
      m \in {1, 2} }
  \cup
  \* HTTP failures, with or without a status; the message matters for 429
  { [kind |-> "TRPCFetcherError", category |-> "http", httpStatus |-> s, message |-> m] :
      s \in {0, 400, 500, 502, 503}, m \in {1, 2} }
  \cup
  { [kind |-> "TRPCFetcherError", category |-> "http", httpStatus |-> 429, message |-> m] :
      m \in MessageIds }
  \cup
  \* other categories, also when a status came with them
  { [kind |-> "TRPCFetcherError", category |-> "parse", httpStatus |-> s, message |-> 1] :
      s \in {0, 429, 503} }

OtherErrors ==
  { [kind |-> k, category |-> "none", httpStatus |-> 0, message |-> 1] :
      k \in {"Error", "AbortError"} }

Errors == FetcherErrors \cup OtherErrors

(***************************************************************************)
(* Backoff delay: lines 169-178 of createRetryablePromise.                 *)
(***************************************************************************)
\* Math.round(num / den) for den > 0: the nearest integer, halves upwards.
Round(num, den) == (2 * num + den) \div (2 * den)

Pow2(n) == 2 ^ n

\* The values of (Math.random() * 2 - 1) * JitterSteps.
JitterSamples == (0 - JitterSteps)..JitterSteps

\* Variant of backoffDelayMs: the exponent is the attempt number.
backoffDelayMs_OffByOne(p, attemptNumber, j) ==
  LET exponentialDelay == p.baseDelayMs * Pow2(attemptNumber)
      delayMs == Min(exponentialDelay, p.maxDelayMs)
  IN IF p.jitterFactor > 0
       THEN Max(1, Round(delayMs * 100 * JitterSteps + j * delayMs * p.jitterFactor,
                         100 * JitterSteps))
       ELSE delayMs

\* delayMs for failed attempt attemptNumber under profile p, with the
\* jitter source at j / JitterSteps.
backoffDelayMs(p, attemptNumber, j) ==
  LET exponentialDelay == p.baseDelayMs * Pow2(attemptNumber - 1)
      delayMs == Min(exponentialDelay, p.maxDelayMs)
  IN IF p.jitterFactor > 0
       THEN \* jitterRange = delayMs * jitterFactor; randomJitter = (j/JitterSteps) * jitterRange
            Max(1, Round(delayMs * 100 * JitterSteps + j * delayMs * p.jitterFactor,
                         100 * JitterSteps))
       ELSE delayMs

(***************************************************************************)
(* createRetryablePromise: the state of one call.                          *)
(***************************************************************************)
VARIABLES
  pc,             \* where the executor is: "operation" (awaiting operationFn()),
                  \* "delay" (awaiting abortableDelay), "returned", "threw"
  attemptNumber,  \* let attemptNumber
  aborted,        \* abortSignal.aborted
  error,          \* the error caught from the latest failed attempt
  rp,             \* const rp: the latest result of selectRetryProfile
  delayMs,        \* let delayMs: the latest computed delay
  onRetry,        \* the callback given: "absent", "returns" or "throws"
  onRetryLog,     \* the RetryAttempt records passed to onRetry, in order
  invocations,    \* number of calls of operationFn
  classified,     \* number of calls of selectRetryProfile
  profilesSeen,   \* the profiles of the errors thrown so far
  abortedAt,      \* pc when the signal fired, "never" before
  outcome,        \* state of the returned promise: "pending", "resolved", "rejected"
  rejectedWith,   \* the rejection reason
  settleCalls     \* number of resolve(...) / reject(...) calls

varsRetrier ==
  << pc, attemptNumber, aborted, error, rp, delayMs, onRetry, onRetryLog,
     invocations, classified, profilesSeen, abortedAt, outcome, rejectedWith,
     settleCalls >>

(***************************************************************************)
(* The state of one _aixChatGenerateContent_LL call (its operations are    *)
(* defined after the retrier).                                             *)
(***************************************************************************)
\* Number of particles the transport yields in one call, at most.
MaxParticles == 3

VARIABLES
  llpc,               \* where the call is: "mutate", "iterating", "waitComplete",
                      \* "catchAbort", "catchExcept", "finalUpdate", "returned", "rejected"
  abortSignal,        \* abortSignal.aborted
  fragments,          \* accumulator_LL.fragments
  genTokenStopReason, \* accumulator_LL.genTokenStopReason ("none" when unset)
  reassemblerState,   \* "Streaming", "Aborted", "Excepted", "Completed"
  wireBacklog,        \* particles enqueued and not yet applied
  isProcessing,       \* a particle's application (its progress callback) is in flight
  onUpdate,           \* onGenerateContentUpdate: "absent", "returns", "throwsOnDone"
  throttle,           \* throttleParallelThreads
  updates,            \* the onGenerateContentUpdate calls made, in order
  produced,           \* number of particles the transport has yielded
  thrown,             \* what the transport threw: "none", "AbortError", "Error"
  clientCalls         \* the ContentReassembler methods Tier 0 called after the try block

varsLL ==
  << llpc, abortSignal, fragments, genTokenStopReason, reassemblerState, wireBacklog,
     isProcessing, onUpdate, throttle, updates, produced, thrown, clientCalls >>

\* The particles given to reassembler.enqueueWireParticle so far, in order.
VARIABLES enqueued

(***************************************************************************)
(* The state of one call of the message-level tier                         *)
(* (aixChatGenerateContent_DMessage) or of the text-only facade            *)
(* (aixChatGenerateText_Simple), which run the accumulator-level call.     *)
(***************************************************************************)
VARIABLES
  tier,          \* the function called: "DMessage" or "Text"
  tpc,           \* where it is: "start", "initialUpdate", "rateLimit", "ll",
                 \* "llFinalCallback", "finalUpdate", "returned", "threw"
  hook,          \* llmVendor.rateLimitChatGenerate: "absent", "resolves", "rejects"
  hookCalls,     \* number of calls of the hook
  callback,      \* onStreamingUpdate / onTextStreamUpdate: "absent" or "returns"
  callerSignal,  \* clientOptions.abortSignal: "signal", "NON_ABORTABLE" or "none"
  aixStreaming,  \* the streaming flag after the hot fixes
  dMessage,      \* Tier 1: the dMessage object (fragments, pendingIncomplete, stop reason)
  stateText,     \* Tier 2: state.text (isNull: it is null)
  tierUpdates,   \* the calls of the caller's callback, in order
  tierOutcome    \* "none", "returned", or the error thrown: "AbortError",
                 \* "Error:hook", "Error:tool", "Error:empty", "Error:response"

varsTiers ==
  << tier, tpc, hook, hookCalls, callback, callerSignal, aixStreaming, dMessage,
     stateText, tierUpdates, tierOutcome >>

(***************************************************************************)
(* The state of one resolution of the model parameters:                    *)
(* getAllModelParameterValues and aixCreateModelFromLLMOptions, as Tier 1  *)
(* and Tier 2 call them.                                                   *)
(***************************************************************************)
VARIABLES
  ppc,                 \* "start", "resolved", "created", "threw"
  initialParameters,   \* llm.initialParameters
  userParameters,      \* llm.userParameters
  llmOptionsOverride,  \* clientOptions.llmOptionsOverride, the caller's object
  llmInterfaces,       \* llm.interfaces
  llmParameters,       \* the result of getAllModelParameterValues
  aixModel,            \* the result of aixCreateModelFromLLMOptions
  withFallback         \* the results of getModelParameterValueWithFallback

varsParams ==
  << ppc, initialParameters, userParameters, llmOptionsOverride, llmInterfaces,
     llmParameters, aixModel, withFallback >>

(***************************************************************************)
(* The process-wide cost aggregator (metricsStoreAddChatGenerate) and the  *)
(* cost computation of one Tier 1 or Tier 2 call.                          *)
(***************************************************************************)
VARIABLES
  metricsStore,        \* the records added to the aggregator, in order
  costs                \* whether metricsComputeChatGenerateCostsMd gives costs

varsCosts == << metricsStore, costs >>

(***************************************************************************)
(* One aixChatGenerateContent_DMessage_FromConversation call.              *)
(***************************************************************************)
VARIABLES
  cpc,                 \* "idle", "building", "tier1", "returned"
  conv                 \* the StreamMessageStatus returned

varsConv == << cpc, conv >>

(***************************************************************************)
(* The models store (store-llms.ts).                                       *)
(***************************************************************************)
VARIABLES
  llms,                \* state.llms
  storeOps             \* the store action taken last, "none" before the first

varsStore == << llms, storeOps >>

\* The executor starts synchronously: attemptNumber = 1 and the first
\* operationFn() is in flight.
InitRetrier ==
  /\ pc = "operation"
  /\ attemptNumber = 1
  /\ aborted \in BOOLEAN
  /\ error = NoError
  /\ rp = NoProfile
  /\ delayMs = 0
  /\ onRetry \in {"absent", "returns", "throws"}
  /\ onRetryLog = << >>
  /\ invocations = 1
  /\ classified = 0
  /\ profilesSeen = {}
  /\ abortedAt = IF aborted THEN "before" ELSE "never"
  /\ outcome = "pending"
  /\ rejectedWith = NoError
  /\ settleCalls = 0

\* resolve(value) / reject(reason) of the Promise: only the first call settles.
Resolve ==
  /\ outcome' = IF outcome = "pending" THEN "resolved" ELSE outcome
  /\ settleCalls' = settleCalls + 1
  /\ UNCHANGED rejectedWith
  /\ UNCHANGED enqueued
  /\ UNCHANGED varsParams
  /\ UNCHANGED varsCosts
  /\ UNCHANGED varsConv
  /\ UNCHANGED varsStore

Reject(e) ==
  /\ outcome' = IF outcome = "pending" THEN "rejected" ELSE outcome
  /\ rejectedWith' = IF outcome = "pending" THEN e ELSE rejectedWith
  /\ settleCalls' = settleCalls + 1

\* abortableDelay(ms, signal) resolves true when the signal interrupts the
\* wait (or is already set), false when the delay elapses.
abortableDelay(signalAborted) == signalAborted

\* Variant of exhausted: the retries, not the attempts, are counted.
exhausted_CountsRetries(n, p) == n - 1 >= p.maxAttempts

\* if (attemptNumber >= rp.maxAttempts)
exhausted(n, p) == n >= p.maxAttempts

\* Variant of RetryAttempt: reports the attempt that failed.
RetryAttempt_FailedAttempt(n, p, d, e) ==
  [ attempt     |-> n - 1,
    maxAttempts |-> p.maxAttempts,
    delayMs     |-> d,
    causeHttp   |-> IF e.kind = "TRPCFetcherError" THEN e.httpStatus ELSE 0,
    causeConn   |-> IF e.kind = "TRPCFetcherError" THEN e.category ELSE "none" ]

\* The RetryAttempt passed to onRetry (attemptNumber is already incremented).
RetryAttempt(n, p, d, e) ==
  [ attempt     |-> n,
    maxAttempts |-> p.maxAttempts,
    delayMs     |-> d,
    causeHttp   |-> IF e.kind = "TRPCFetcherError" THEN e.httpStatus ELSE 0,
    causeConn   |-> IF e.kind = "TRPCFetcherError" THEN e.category ELSE "none" ]

\* operationFn() resolved: resolve(result); return.
OperationResolves ==
  /\ pc = "operation"
  /\ Resolve
  /\ pc' = "returned"
  /\ UNCHANGED << attemptNumber, aborted, error, rp, delayMs, onRetry, onRetryLog,
                  invocations, classified, profilesSeen, abortedAt >>
  /\ UNCHANGED varsLL
  /\ UNCHANGED varsTiers
  /\ UNCHANGED enqueued
  /\ UNCHANGED varsParams
  /\ UNCHANGED varsCosts
  /\ UNCHANGED varsConv
  /\ UNCHANGED varsStore

\* Variant of CatchAborted: the error is classified before the signal is read.
CatchAborted_ClassifiesFirst(e) ==
  /\ pc = "operation"
  /\ aborted
  /\ error' = e
  /\ rp' = selectRetryProfile(e)
  /\ classified' = classified + 1
  /\ Reject(e)
  /\ pc' = "returned"
  /\ profilesSeen' = profilesSeen \cup {selectRetryProfile(e)}
  /\ UNCHANGED << attemptNumber, aborted, delayMs, onRetry, onRetryLog,
                  invocations, abortedAt >>
  /\ UNCHANGED varsLL
  /\ UNCHANGED varsTiers
  /\ UNCHANGED enqueued
  /\ UNCHANGED varsParams
  /\ UNCHANGED varsCosts
  /\ UNCHANGED varsConv
  /\ UNCHANGED varsStore

\* catch (error), signal already set: reject(error); return.
CatchAborted(e) ==
  /\ pc = "operation"
  /\ aborted
  /\ error' = e
  /\ Reject(e)
  /\ pc' = "returned"
  /\ profilesSeen' = profilesSeen \cup {selectRetryProfile(e)}
  /\ UNCHANGED << attemptNumber, aborted, rp, delayMs, onRetry, onRetryLog,
                  invocations, classified, abortedAt >>
  /\ UNCHANGED varsLL
  /\ UNCHANGED varsTiers
  /\ UNCHANGED enqueued
  /\ UNCHANGED varsParams
  /\ UNCHANGED varsCosts
  /\ UNCHANGED varsConv
  /\ UNCHANGED varsStore

\* Variant of CatchNotRetryable: the rejection is missing and the wait starts.
CatchNotRetryable_Waits(e) ==
  /\ pc = "operation"
  /\ ~aborted
  /\ selectRetryProfile(e) = NoProfile
  /\ error' = e
  /\ rp' = selectRetryProfile(e)
  /\ classified' = classified + 1
  /\ attemptNumber' = attemptNumber + 1
  /\ pc' = "delay"
  /\ profilesSeen' = profilesSeen \cup {selectRetryProfile(e)}
  /\ UNCHANGED << aborted, delayMs, onRetry, onRetryLog, invocations, abortedAt,
                  outcome, rejectedWith, settleCalls >>
  /\ UNCHANGED varsLL
  /\ UNCHANGED varsTiers
  /\ UNCHANGED enqueued
  /\ UNCHANGED varsParams
  /\ UNCHANGED varsCosts
  /\ UNCHANGED varsConv
  /\ UNCHANGED varsStore

\* catch (error), not retryable: reject(error); return.
CatchNotRetryable(e) ==
  /\ pc = "operation"
  /\ ~aborted
  /\ selectRetryProfile(e) = NoProfile
  /\ error' = e
  /\ rp' = selectRetryProfile(e)
  /\ classified' = classified + 1
  /\ Reject(e)
  /\ pc' = "returned"
  /\ profilesSeen' = profilesSeen \cup {selectRetryProfile(e)}
  /\ UNCHANGED << attemptNumber, aborted, delayMs, onRetry, onRetryLog,
                  invocations, abortedAt >>
  /\ UNCHANGED varsLL
  /\ UNCHANGED varsTiers
  /\ UNCHANGED enqueued
  /\ UNCHANGED varsParams
  /\ UNCHANGED varsCosts
  /\ UNCHANGED varsConv
  /\ UNCHANGED varsStore

\* catch (error), retryable but attempts exhausted: reject(error); return.
CatchExhausted(e) ==
  /\ pc = "operation"
  /\ ~aborted
  /\ selectRetryProfile(e) # NoProfile
  /\ exhausted(attemptNumber, RETRY_PROFILES[selectRetryProfile(e)])
  /\ error' = e
  /\ rp' = selectRetryProfile(e)
  /\ classified' = classified + 1
  /\ Reject(e)
  /\ pc' = "returned"
  /\ profilesSeen' = profilesSeen \cup {selectRetryProfile(e)}
  /\ UNCHANGED << attemptNumber, aborted, delayMs, onRetry, onRetryLog,
                  invocations, abortedAt >>
  /\ UNCHANGED varsLL
  /\ UNCHANGED varsTiers
  /\ UNCHANGED enqueued
  /\ UNCHANGED varsParams
  /\ UNCHANGED varsCosts
  /\ UNCHANGED varsConv
  /\ UNCHANGED varsStore

\* catch (error), retryable with attempts left: compute the delay with the
\* jitter source at j / JitterSteps, attemptNumber++, onRetry?.(...), then
\* start the abortable wait.  onRetry is called outside any try block of the
\* async executor: when it throws, the executor ends without settling.
CatchRetry(e, j) ==
  /\ pc = "operation"
  /\ ~aborted
  /\ selectRetryProfile(e) # NoProfile
  /\ ~exhausted(attemptNumber, RETRY_PROFILES[selectRetryProfile(e)])
  /\ error' = e
  /\ rp' = selectRetryProfile(e)
  /\ classified' = classified + 1
  /\ delayMs' = backoffDelayMs(RETRY_PROFILES[rp'], attemptNumber, j)
  /\ attemptNumber' = attemptNumber + 1
  /\ onRetryLog' = IF onRetry = "absent" THEN onRetryLog
                   ELSE Append(onRetryLog,
                               RetryAttempt(attemptNumber', RETRY_PROFILES[rp'], delayMs', e))
  /\ pc' = IF onRetry = "throws" THEN "threw" ELSE "delay"
  /\ profilesSeen' = profilesSeen \cup {selectRetryProfile(e)}
  /\ UNCHANGED << aborted, onRetry, invocations, abortedAt, outcome, rejectedWith,
                  settleCalls >>
  /\ UNCHANGED varsLL
  /\ UNCHANGED varsTiers
  /\ UNCHANGED enqueued
  /\ UNCHANGED varsParams
  /\ UNCHANGED varsCosts
  /\ UNCHANGED varsConv
  /\ UNCHANGED varsStore

\* abortableDelay resolved false: the loop continues with the next attempt.
DelayElapsed ==
  /\ pc = "delay"
  /\ ~abortableDelay(aborted)
  /\ pc' = "operation"
  /\ invocations' = invocations + 1
  /\ UNCHANGED << attemptNumber, aborted, error, rp, delayMs, onRetry, onRetryLog,
                  classified, profilesSeen, abortedAt, outcome, rejectedWith,
                  settleCalls >>
  /\ UNCHANGED varsLL
  /\ UNCHANGED varsTiers
  /\ UNCHANGED enqueued
  /\ UNCHANGED varsParams
  /\ UNCHANGED varsCosts
  /\ UNCHANGED varsConv
  /\ UNCHANGED varsStore

\* Variant of DelayAborted: rejects with a new abort error.
DelayAborted_AbortError ==
  /\ pc = "delay"
  /\ abortableDelay(aborted)
  /\ Reject([kind |-> "AbortError", category |-> "none", httpStatus |-> 0, message |-> 1])
  /\ pc' = "returned"
  /\ UNCHANGED << attemptNumber, aborted, error, rp, delayMs, onRetry, onRetryLog,
                  invocations, classified, profilesSeen, abortedAt >>
  /\ UNCHANGED varsLL
  /\ UNCHANGED varsTiers
  /\ UNCHANGED enqueued
  /\ UNCHANGED varsParams
  /\ UNCHANGED varsCosts
  /\ UNCHANGED varsConv
  /\ UNCHANGED varsStore

\* abortableDelay resolved true: reject(error); return.
DelayAborted ==
  /\ pc = "delay"
  /\ abortableDelay(aborted)
  /\ Reject(error)
  /\ pc' = "returned"
  /\ UNCHANGED << attemptNumber, aborted, error, rp, delayMs, onRetry, onRetryLog,
                  invocations, classified, profilesSeen, abortedAt >>
  /\ UNCHANGED varsLL
  /\ UNCHANGED varsTiers
  /\ UNCHANGED enqueued
  /\ UNCHANGED varsParams
  /\ UNCHANGED varsCosts
  /\ UNCHANGED varsConv
  /\ UNCHANGED varsStore

\* The caller fires the cancellation signal while the promise is pending.
Abort ==
  /\ pc \in {"operation", "delay"}
  /\ ~aborted
  /\ aborted' = TRUE
  /\ abortedAt' = pc
  /\ UNCHANGED << pc, attemptNumber, error, rp, delayMs, onRetry, onRetryLog,
                  invocations, classified, profilesSeen, outcome, rejectedWith,
                  settleCalls >>
  /\ UNCHANGED varsLL
  /\ UNCHANGED varsTiers
  /\ UNCHANGED enqueued
  /\ UNCHANGED varsParams
  /\ UNCHANGED varsCosts
  /\ UNCHANGED varsConv
  /\ UNCHANGED varsStore

(***************************************************************************)
(* _aixChatGenerateContent_LL: the accumulator-level tier.                 *)
(*                                                                         *)
(* ContentReassembler and withDecimator are imported by aix.client.ts;     *)
(* their behaviour follows the component design (Content Reassembler,      *)
(* Update Decimator).                                                      *)
(***************************************************************************)
\* The wire particles of the model: text deltas, a tool invocation, an
\* in-band error and the stream-done marker.
Particles ==
  { [p |-> "text", t |-> "Hello"], [p |-> "text", t |-> " world"],
    [p |-> "tool", t |-> ""], [p |-> "issue", t |-> "upstream"], [p |-> "done", t |-> ""],
    [p |-> "reasoning", t |-> ""] }

\* A content fragment: ft is the variant tag; text is the list of deltas
\* (their concatenation is the content); open marks the text fragment that
\* further deltas extend.
TextFragment(t) == [ft |-> "text", text |-> << t >>, open |-> TRUE]
ErrorFragment(message) == [ft |-> "error", text |-> << message >>, open |-> FALSE]
ToolFragment == [ft |-> "tool_invocation", text |-> << >>, open |-> FALSE]
\* A fragment without text content: the model's auxiliary (reasoning) part.
VoidFragment == [ft |-> "ma", text |-> << >>, open |-> FALSE]

\* Seals the open text fragment, if any.
Sealed(fs) == [i \in 1..Len(fs) |-> [fs[i] EXCEPT !.open = FALSE]]

\* Variant of ApplyParticle: every text delta opens a fragment of its own.
ApplyParticle_FragmentPerDelta(fs, particle) ==
  CASE particle.p = "text" -> Append(Sealed(fs), TextFragment(particle.t))
    [] particle.p = "tool"  -> Append(Sealed(fs), ToolFragment)
    [] particle.p = "issue" -> Append(Sealed(fs), ErrorFragment(particle.t))
    [] particle.p = "done"  -> Sealed(fs)
    [] particle.p = "reasoning" -> Append(Sealed(fs), VoidFragment)

\* The effect of one particle on the fragment list.
ApplyParticle(fs, particle) ==
  CASE particle.p = "text" ->
         IF Len(fs) > 0 /\ fs[Len(fs)].open
           THEN [fs EXCEPT ![Len(fs)].text = Append(@, particle.t)]
           ELSE Append(fs, TextFragment(particle.t))
    [] particle.p = "tool"  -> Append(Sealed(fs), ToolFragment)
    [] particle.p = "issue" -> Append(Sealed(fs), ErrorFragment(particle.t))
    [] particle.p = "done"  -> Sealed(fs)
    [] particle.p = "reasoning" -> Append(Sealed(fs), VoidFragment)

\* Variant of DecimatorMaySkip: a call may be skipped at every level.
DecimatorMaySkip_AtEveryLevel(level) == TRUE

\* withDecimator(level, fn): level 0 forwards every call; a higher level may
\* skip a call.  emit is the decimator's decision for this call.
DecimatorMaySkip(level) == level > 0

\* Variant of SendsContentUpdate: empty accumulators are notified too.
SendsContentUpdate_AlsoEmpty(emit, fs) ==
  /\ onUpdate # "absent"
  /\ emit

\* sendContentUpdate: through the decimator, and only once a fragment exists.
SendsContentUpdate(emit, fs) ==
  /\ onUpdate # "absent"
  /\ emit
  /\ Len(fs) > 0

Update(isDone, fs) == [isDone |-> isDone, fragments |-> fs]

InitLL ==
  /\ llpc = "mutate"
  /\ abortSignal \in BOOLEAN
  /\ fragments = << >>
  /\ genTokenStopReason = "none"
  /\ reassemblerState = "Streaming"
  /\ wireBacklog = << >>
  /\ isProcessing = FALSE
  /\ onUpdate \in {"absent", "returns", "throwsOnDone"}
  /\ throttle \in {0, 1}
  /\ updates = << >>
  /\ produced = 0
  /\ thrown = "none"
  /\ clientCalls = << >>

\* await apiStream.aix.chatGenerateContent.mutate(...) resolved with the
\* particle stream.
MutateResolves ==
  /\ llpc = "mutate"
  /\ llpc' = "iterating"
  /\ UNCHANGED << abortSignal, fragments, genTokenStopReason, reassemblerState,
                  wireBacklog, isProcessing, onUpdate, throttle, updates, produced,
                  thrown, clientCalls >>
  /\ UNCHANGED varsRetrier
  /\ UNCHANGED varsTiers
  /\ UNCHANGED enqueued
  /\ UNCHANGED varsParams
  /\ UNCHANGED varsCosts
  /\ UNCHANGED varsConv
  /\ UNCHANGED varsStore

\* for await (const particle of particles) reassembler.enqueueWireParticle(particle)
Yield(particle) ==
  /\ llpc = "iterating"
  /\ produced < MaxParticles
  /\ produced' = produced + 1
  /\ wireBacklog' = Append(wireBacklog, particle)
  /\ enqueued' = Append(enqueued, particle)
  /\ UNCHANGED << llpc, abortSignal, fragments, genTokenStopReason, reassemblerState,
                  isProcessing, onUpdate, throttle, updates, thrown, clientCalls >>
  /\ UNCHANGED varsRetrier
  /\ UNCHANGED varsTiers
  /\ UNCHANGED varsParams
  /\ UNCHANGED varsCosts
  /\ UNCHANGED varsConv
  /\ UNCHANGED varsStore

\* The particle stream ended: await reassembler.waitForWireComplete().
IterationEnds ==
  /\ llpc = "iterating"
  /\ llpc' = "waitComplete"
  /\ UNCHANGED << abortSignal, fragments, genTokenStopReason, reassemblerState,
                  wireBacklog, isProcessing, onUpdate, throttle, updates, produced,
                  thrown, clientCalls >>
  /\ UNCHANGED varsRetrier
  /\ UNCHANGED varsTiers
  /\ UNCHANGED enqueued
  /\ UNCHANGED varsParams
  /\ UNCHANGED varsCosts
  /\ UNCHANGED varsConv
  /\ UNCHANGED varsStore

\* Variant of CatchTarget: only the signal makes a failure an abort.
CatchTarget_SignalOnly(isUserAbort, isErrorAbort) ==
  IF isUserAbort THEN "catchAbort" ELSE "catchExcept"

\* Variant of CatchTarget: an error that is no abort is thrown again.
CatchTarget_Rethrows(isUserAbort, isErrorAbort) ==
  IF isUserAbort \/ isErrorAbort THEN "catchAbort" ELSE "rejected"

\* The catch block up to its await: a user abort (signal set, or an
\* AbortError) goes to setClientAborted, anything else to setClientExcepted.
CatchTarget(isUserAbort, isErrorAbort) ==
  IF isUserAbort \/ isErrorAbort THEN "catchAbort" ELSE "catchExcept"

\* The mutate call or the iteration threw errorName.
TransportThrows(errorName) ==
  /\ llpc \in {"mutate", "iterating"}
  /\ thrown' = errorName
  /\ llpc' = CatchTarget(abortSignal, errorName = "AbortError")
  /\ UNCHANGED << abortSignal, fragments, genTokenStopReason, reassemblerState,
                  wireBacklog, isProcessing, onUpdate, throttle, updates, produced,
                  clientCalls >>
  /\ UNCHANGED varsRetrier
  /\ UNCHANGED varsTiers
  /\ UNCHANGED enqueued
  /\ UNCHANGED varsParams
  /\ UNCHANGED varsCosts
  /\ UNCHANGED varsConv
  /\ UNCHANGED varsStore

\* Variant of ProcessParticle: the next particle is applied while the
\* callback of the one before is still awaited.
ProcessParticle_Overlaps(emit) ==
  /\ llpc \in {"iterating", "waitComplete", "catchAbort", "catchExcept"}
  /\ wireBacklog # << >>
  /\ emit \/ DecimatorMaySkip(throttle)
  /\ wireBacklog' = Tail(wireBacklog)
  /\ fragments' = ApplyParticle(fragments, Head(wireBacklog))
  /\ IF SendsContentUpdate(emit, fragments')
       THEN /\ updates' = Append(updates, Update(FALSE, fragments'))
            /\ isProcessing' = TRUE
       ELSE UNCHANGED << updates, isProcessing >>
  /\ UNCHANGED << llpc, abortSignal, genTokenStopReason, reassemblerState, onUpdate,
                  throttle, produced, thrown, clientCalls >>
  /\ UNCHANGED varsRetrier
  /\ UNCHANGED varsTiers
  /\ UNCHANGED enqueued
  /\ UNCHANGED varsParams
  /\ UNCHANGED varsCosts
  /\ UNCHANGED varsConv
  /\ UNCHANGED varsStore

\* The reassembler applies the next particle of the backlog, then sends the
\* decimated progress update and awaits it.
ProcessParticle(emit) ==
  /\ llpc \in {"iterating", "waitComplete", "catchAbort", "catchExcept"}
  /\ ~isProcessing
  /\ wireBacklog # << >>
  /\ emit \/ DecimatorMaySkip(throttle)
  /\ wireBacklog' = Tail(wireBacklog)
  /\ fragments' = ApplyParticle(fragments, Head(wireBacklog))
  /\ IF SendsContentUpdate(emit, fragments')
       THEN /\ updates' = Append(updates, Update(FALSE, fragments'))
            /\ isProcessing' = TRUE
       ELSE UNCHANGED << updates, isProcessing >>
  /\ UNCHANGED << llpc, abortSignal, genTokenStopReason, reassemblerState, onUpdate,
                  throttle, produced, thrown, clientCalls >>
  /\ UNCHANGED varsRetrier
  /\ UNCHANGED varsTiers
  /\ UNCHANGED enqueued
  /\ UNCHANGED varsParams
  /\ UNCHANGED varsCosts
  /\ UNCHANGED varsConv
  /\ UNCHANGED varsStore

\* The awaited progress callback of the particle in flight returned.
UpdateReturns ==
  /\ isProcessing
  /\ isProcessing' = FALSE
  /\ UNCHANGED << llpc, abortSignal, fragments, genTokenStopReason, reassemblerState,
                  wireBacklog, onUpdate, throttle, updates, produced, thrown,
                  clientCalls >>
  /\ UNCHANGED varsRetrier
  /\ UNCHANGED varsTiers
  /\ UNCHANGED enqueued
  /\ UNCHANGED varsParams
  /\ UNCHANGED varsCosts
  /\ UNCHANGED varsConv
  /\ UNCHANGED varsStore

\* Variant of finalizeState: finalizing always completes.
finalizeState_AlwaysCompletes(state) == "Completed"

\* reassembler.finalizeAccumulator(): seals the open text fragment and
\* completes the state machine unless it was aborted or excepted.
finalizeState(state) == IF state = "Streaming" THEN "Completed" ELSE state

\* Variant of Finalize: the final update goes through the same guard as the
\* interim ones and is dropped while the accumulator is empty.
Finalize_GuardedFinalUpdate(fs, state, calls) ==
  /\ fragments' = Sealed(fs)
  /\ reassemblerState' = finalizeState(state)
  /\ clientCalls' = Append(calls, "finalizeAccumulator")
  /\ IF onUpdate = "absent"
       THEN llpc' = "returned" /\ UNCHANGED updates
       ELSE /\ llpc' = "finalUpdate"
            /\ updates' = IF Len(fs) > 0 THEN Append(updates, Update(TRUE, fragments'))
                                         ELSE updates

\* Lines 706-713: finalizeAccumulator(), then the final update (isDone = true)
\* when a callback was given, which is awaited.  fs and state are the
\* accumulator and the reassembler state the try/catch left.
Finalize(fs, state, calls) ==
  /\ fragments' = Sealed(fs)
  /\ reassemblerState' = finalizeState(state)
  /\ clientCalls' = Append(calls, "finalizeAccumulator")
  /\ IF onUpdate = "absent"
       THEN llpc' = "returned" /\ UNCHANGED updates
       ELSE llpc' = "finalUpdate" /\ updates' = Append(updates, Update(TRUE, fragments'))

\* Variant of WireComplete: it resolves as soon as the backlog is empty.
WireComplete_WhenBacklogEmpty ==
  /\ llpc = "waitComplete"
  /\ wireBacklog = << >>
  /\ Finalize(fragments, reassemblerState, clientCalls)
  /\ UNCHANGED << abortSignal, genTokenStopReason, wireBacklog, isProcessing, onUpdate,
                  throttle, produced, thrown >>
  /\ UNCHANGED varsTiers
  /\ UNCHANGED varsRetrier
  /\ UNCHANGED enqueued
  /\ UNCHANGED varsParams
  /\ UNCHANGED varsCosts
  /\ UNCHANGED varsConv
  /\ UNCHANGED varsStore

\* waitForWireComplete() resolved: every enqueued particle has been applied.
WireComplete ==
  /\ llpc = "waitComplete"
  /\ wireBacklog = << >>
  /\ ~isProcessing
  /\ Finalize(fragments, reassemblerState, clientCalls)
  /\ UNCHANGED << abortSignal, genTokenStopReason, wireBacklog, isProcessing, onUpdate,
                  throttle, produced, thrown >>
  /\ UNCHANGED varsRetrier
  /\ UNCHANGED varsTiers
  /\ UNCHANGED enqueued
  /\ UNCHANGED varsParams
  /\ UNCHANGED varsCosts
  /\ UNCHANGED varsConv
  /\ UNCHANGED varsStore

\* await reassembler.setClientAborted() resolved: the stop reason is the
\* user's cancellation, the fragments are kept; then lines 706-713.
ClientAborted ==
  /\ llpc = "catchAbort"
  /\ wireBacklog = << >>
  /\ ~isProcessing
  /\ genTokenStopReason' = "client-abort"
  /\ Finalize(fragments, "Aborted", Append(clientCalls, "setClientAborted"))
  /\ UNCHANGED << abortSignal, wireBacklog, isProcessing, onUpdate, throttle, produced,
                  thrown >>
  /\ UNCHANGED varsRetrier
  /\ UNCHANGED varsTiers
  /\ UNCHANGED enqueued
  /\ UNCHANGED varsParams
  /\ UNCHANGED varsCosts
  /\ UNCHANGED varsConv
  /\ UNCHANGED varsStore

\* Variant of ClientExcepted: the error fragment replaces the content.
ClientExcepted_ReplacesContent ==
  /\ llpc = "catchExcept"
  /\ wireBacklog = << >>
  /\ ~isProcessing
  /\ Finalize(<< ErrorFragment("An unexpected error occurred") >>,
              "Excepted", Append(clientCalls, "setClientExcepted"))
  /\ UNCHANGED << abortSignal, genTokenStopReason, wireBacklog, isProcessing, onUpdate,
                  throttle, produced, thrown >>
  /\ UNCHANGED varsRetrier
  /\ UNCHANGED varsTiers
  /\ UNCHANGED enqueued
  /\ UNCHANGED varsParams
  /\ UNCHANGED varsCosts
  /\ UNCHANGED varsConv
  /\ UNCHANGED varsStore

\* await reassembler.setClientExcepted(message) resolved: an error fragment
\* with the message is appended; then lines 706-713.
ClientExcepted ==
  /\ llpc = "catchExcept"
  /\ wireBacklog = << >>
  /\ ~isProcessing
  /\ Finalize(Append(Sealed(fragments), ErrorFragment("An unexpected error occurred")),
              "Excepted", Append(clientCalls, "setClientExcepted"))
  /\ UNCHANGED << abortSignal, genTokenStopReason, wireBacklog, isProcessing, onUpdate,
                  throttle, produced, thrown >>
  /\ UNCHANGED varsRetrier
  /\ UNCHANGED varsTiers
  /\ UNCHANGED enqueued
  /\ UNCHANGED varsParams
  /\ UNCHANGED varsCosts
  /\ UNCHANGED varsConv
  /\ UNCHANGED varsStore

\* The awaited final update returned: return accumulator_LL.
FinalUpdateReturns ==
  /\ llpc = "finalUpdate"
  /\ onUpdate = "returns"
  /\ llpc' = "returned"
  /\ UNCHANGED << abortSignal, fragments, genTokenStopReason, reassemblerState,
                  wireBacklog, isProcessing, onUpdate, throttle, updates, produced,
                  thrown, clientCalls >>
  /\ UNCHANGED varsRetrier
  /\ UNCHANGED varsTiers
  /\ UNCHANGED enqueued
  /\ UNCHANGED varsParams
  /\ UNCHANGED varsCosts
  /\ UNCHANGED varsConv
  /\ UNCHANGED varsStore

\* The final update threw: the call rejects.
FinalUpdateThrows ==
  /\ llpc = "finalUpdate"
  /\ onUpdate = "throwsOnDone"
  /\ llpc' = "rejected"
  /\ UNCHANGED << abortSignal, fragments, genTokenStopReason, reassemblerState,
                  wireBacklog, isProcessing, onUpdate, throttle, updates, produced,
                  thrown, clientCalls >>
  /\ UNCHANGED varsRetrier
  /\ UNCHANGED varsTiers
  /\ UNCHANGED enqueued
  /\ UNCHANGED varsParams
  /\ UNCHANGED varsCosts
  /\ UNCHANGED varsConv
  /\ UNCHANGED varsStore

\* The caller fires the cancellation signal during the call.
AbortLL ==
  /\ llpc \notin {"returned", "rejected"}
  /\ ~abortSignal
  /\ abortSignal' = TRUE
  /\ UNCHANGED << llpc, fragments, genTokenStopReason, reassemblerState, wireBacklog,
                  isProcessing, onUpdate, throttle, updates, produced, thrown,
                  clientCalls >>
  /\ UNCHANGED varsRetrier
  /\ UNCHANGED varsTiers
  /\ UNCHANGED enqueued
  /\ UNCHANGED varsParams
  /\ UNCHANGED varsCosts
  /\ UNCHANGED varsConv
  /\ UNCHANGED varsStore

(***************************************************************************)
(* aixChatGenerateContent_DMessage (Tier 1) and aixChatGenerateText_Simple *)
(* (Tier 2): the callers of the accumulator-level tier.  The LLM, its      *)
(* service and its parameters are taken as found (the lookups that throw   *)
(* for an unknown id come before everything modelled here).                *)
(***************************************************************************)
HasToolInvocation(fs) == \E i \in 1..Len(fs) : fs[i].ft = "tool_invocation"

\* The concatenation _llToText builds, as the list of its pieces; it stops at
\* a tool invocation, where the code throws.
RECURSIVE llToTextFrom(_, _)
llToTextFrom(fs, text) ==
  IF fs = << >> THEN text
  ELSE LET part == Head(fs) IN
    CASE part.ft = "text"  -> llToTextFrom(Tail(fs), text \o part.text)
      [] part.ft = "error" ->
           llToTextFrom(Tail(fs), text \o (IF text # << >> THEN << "\n" >> ELSE << >>) \o part.text)
      [] part.ft = "tool_invocation" -> text
      [] part.ft = "ma" -> llToTextFrom(Tail(fs), text)

\* _llToText(src, dest): dest.text after the call (or after its throw).
llToText(src, dest) ==
  IF Len(src) > 0 THEN [isNull |-> FALSE, text |-> llToTextFrom(src, << >>)] ELSE dest

\* Variant of errorMessage: the message of the first error fragment only.
RECURSIVE errorMessage_FirstOnly(_)
errorMessage_FirstOnly(fs) ==
  IF fs = << >> THEN << >>
  ELSE IF Head(fs).ft = "error" THEN Head(fs).text ELSE errorMessage_FirstOnly(Tail(fs))

\* The message of the error Tier 2 throws for error fragments: their
\* messages joined by a line feed.
RECURSIVE errorMessage(_)
errorMessage(fs) ==
  IF fs = << >> THEN << >>
  ELSE LET rest == errorMessage(Tail(fs)) IN
    IF Head(fs).ft # "error" THEN rest
    ELSE IF rest = << >> THEN Head(fs).text ELSE Head(fs).text \o << "\n" >> \o rest

\* _llToDMessage(src, dest): the fragments are taken over once there are any
\* (dest.fragments is then the accumulator's own list), the stop reason once
\* it is set.
llToDMessage(src, stopReason, dest) ==
  [dest EXCEPT !.fragments = IF Len(src) > 0 THEN src ELSE @,
               !.tokenStopReason = IF stopReason # "none" THEN stopReason ELSE @]

\* A call of onStreamingUpdate(dMessage, isDone).
DMessageUpdate(dm, isDone) ==
  [isDone |-> isDone, fragments |-> dm.fragments,
   pendingIncomplete |-> dm.pendingIncomplete, text |-> << >>]

\* A call of onTextStreamUpdate(text, isDone, generator).
TextUpdate(text, isDone) ==
  [isDone |-> isDone, fragments |-> << >>, pendingIncomplete |-> FALSE, text |-> text]

\* The progress callback handed to Tier 0: Tier 1 always hands one over,
\* Tier 2 only when streaming.
LLCallback == IF tier = "Text" /\ ~aixStreaming THEN "absent" ELSE "returns"

\* await _aixChatGenerateContent_LL(...): the call starts.
CallLL ==
  /\ llpc' = "mutate"
  /\ onUpdate' = LLCallback
  /\ tpc' = "ll"

\* Variant of RateLimitThenCallLL: the transport call does not wait for the hook.
RateLimitThenCallLL_NotAwaited ==
  /\ CallLL
  /\ hookCalls' = IF hook = "absent" THEN hookCalls ELSE hookCalls + 1

\* await llmVendor.rateLimitChatGenerate?.(llm, llmServiceSettings), then
\* the accumulator-level call.
RateLimitThenCallLL ==
  IF hook = "absent"
    THEN CallLL /\ UNCHANGED hookCalls
    ELSE /\ tpc' = "rateLimit"
         /\ hookCalls' = hookCalls + 1
         /\ UNCHANGED << llpc, onUpdate >>

\* The record one call adds to the aggregator.
CostRecord(call) == [call |-> call]

\* _updateGeneratorCostsInPlace: returns early without costs, else one call
\* of metricsStoreAddChatGenerate.
updateGeneratorCostsInPlace(store) ==
  IF costs THEN Append(store, CostRecord("this")) ELSE store

\* The particles of one Tier 1 or Tier 2 call.
MaxTierParticles == 2

\* The particle stream of a call made by Tier 1 or Tier 2.
TierYield(particle) ==
  /\ produced < MaxTierParticles
  /\ Yield(particle)

\* The tiers in their start state; the accumulator-level call has not begun.
\* Tier 1 only passes aixStreaming on to the transport; in Tier 2 it is
\* !!onTextStreamUpdate unless a hot fix disables it.
InitTiers ==
  /\ tier \in {"DMessage", "Text"}
  /\ tpc = "start"
  /\ hook \in {"absent", "resolves", "rejects"}
  /\ hookCalls = 0
  /\ callback \in {"absent", "returns"}
  /\ callerSignal \in (IF tier = "Text" THEN {"signal", "NON_ABORTABLE", "none"}
                                        ELSE {"signal", "NON_ABORTABLE"})
  /\ aixStreaming \in (IF tier = "Text" /\ callback # "absent" THEN BOOLEAN
                       ELSE IF tier = "Text" THEN {FALSE} ELSE {TRUE})
  /\ dMessage = [fragments |-> << >>, pendingIncomplete |-> TRUE, tokenStopReason |-> "none"]
  /\ stateText = [isNull |-> TRUE, text |-> << >>]
  /\ tierUpdates = << >>
  /\ tierOutcome = "none"
  /\ llpc = "notStarted"
  /\ abortSignal \in (IF callerSignal = "signal" THEN BOOLEAN ELSE {FALSE})
  /\ fragments = << >> /\ genTokenStopReason = "none" /\ reassemblerState = "Streaming"
  /\ wireBacklog = << >> /\ isProcessing = FALSE /\ onUpdate = "absent"
  /\ throttle \in {0, 1}
  /\ updates = << >> /\ produced = 0 /\ thrown = "none" /\ clientCalls = << >>
  /\ pc = "returned" /\ attemptNumber = 1 /\ aborted = FALSE /\ error = NoError
  /\ rp = NoProfile /\ delayMs = 0 /\ onRetry = "absent" /\ onRetryLog = << >>
  /\ invocations = 0 /\ classified = 0 /\ profilesSeen = {} /\ abortedAt = "never"
  /\ outcome = "pending" /\ rejectedWith = NoError /\ settleCalls = 0
  /\ enqueued = << >>
  /\ ppc = "start" /\ initialParameters = << >> /\ userParameters = << >>
  /\ llmOptionsOverride = << >> /\ llmInterfaces = {} /\ llmParameters = << >>
  /\ aixModel = << >>
  /\ withFallback = << >>
  /\ metricsStore = << >> /\ costs = FALSE
  /\ cpc = "idle" /\ conv = << >>
  /\ llms = << >> /\ storeOps = "none"

\* Variant of DMessage_Start: no initial notification, as in Tier 2.
DMessage_Start_NoInitialUpdate ==
  /\ tier = "DMessage"
  /\ tpc = "start"
  /\ RateLimitThenCallLL
  /\ UNCHANGED << tier, hook, callback, callerSignal, aixStreaming, dMessage, stateText,
                  tierUpdates, tierOutcome >>
  /\ UNCHANGED << abortSignal, fragments, genTokenStopReason, reassemblerState,
                  wireBacklog, isProcessing, throttle, updates, produced, thrown,
                  clientCalls >>
  /\ UNCHANGED varsRetrier
  /\ UNCHANGED enqueued
  /\ UNCHANGED varsParams
  /\ UNCHANGED varsCosts
  /\ UNCHANGED varsConv
  /\ UNCHANGED varsStore

\* Tier 1 up to its first await: await onStreamingUpdate?.(dMessage, false),
\* or without a callback the rate-limit hook.
DMessage_Start ==
  /\ tier = "DMessage"
  /\ tpc = "start"
  /\ IF callback # "absent"
       THEN /\ tierUpdates' = Append(tierUpdates, DMessageUpdate(dMessage, FALSE))
            /\ tpc' = "initialUpdate"
            /\ UNCHANGED << hookCalls, llpc, onUpdate >>
       ELSE RateLimitThenCallLL /\ UNCHANGED tierUpdates
  /\ UNCHANGED << tier, hook, callback, callerSignal, aixStreaming, dMessage, stateText,
                  tierOutcome >>
  /\ UNCHANGED << abortSignal, fragments, genTokenStopReason, reassemblerState,
                  wireBacklog, isProcessing, throttle, updates, produced, thrown,
                  clientCalls >>
  /\ UNCHANGED varsRetrier
  /\ UNCHANGED enqueued
  /\ UNCHANGED varsParams
  /\ UNCHANGED varsCosts
  /\ UNCHANGED varsConv
  /\ UNCHANGED varsStore

\* The awaited initial notification returned.
DMessage_InitialUpdateReturns ==
  /\ tpc = "initialUpdate"
  /\ RateLimitThenCallLL
  /\ UNCHANGED << tier, hook, callback, callerSignal, aixStreaming, dMessage, stateText,
                  tierUpdates, tierOutcome >>
  /\ UNCHANGED << abortSignal, fragments, genTokenStopReason, reassemblerState,
                  wireBacklog, isProcessing, throttle, updates, produced, thrown,
                  clientCalls >>
  /\ UNCHANGED varsRetrier
  /\ UNCHANGED enqueued
  /\ UNCHANGED varsParams
  /\ UNCHANGED varsCosts
  /\ UNCHANGED varsConv
  /\ UNCHANGED varsStore

\* Tier 2 up to its first await: there is no initial notification.
Text_Start ==
  /\ tier = "Text"
  /\ tpc = "start"
  /\ RateLimitThenCallLL
  /\ UNCHANGED << tier, hook, callback, callerSignal, aixStreaming, dMessage, stateText,
                  tierUpdates, tierOutcome >>
  /\ UNCHANGED << abortSignal, fragments, genTokenStopReason, reassemblerState,
                  wireBacklog, isProcessing, throttle, updates, produced, thrown,
                  clientCalls >>
  /\ UNCHANGED varsRetrier
  /\ UNCHANGED enqueued
  /\ UNCHANGED varsParams
  /\ UNCHANGED varsCosts
  /\ UNCHANGED varsConv
  /\ UNCHANGED varsStore

\* The awaited rate-limit hook resolved.
RateLimitResolves ==
  /\ tpc = "rateLimit"
  /\ hook = "resolves"
  /\ CallLL
  /\ UNCHANGED << tier, hook, hookCalls, callback, callerSignal, aixStreaming, dMessage,
                  stateText, tierUpdates, tierOutcome >>
  /\ UNCHANGED << abortSignal, fragments, genTokenStopReason, reassemblerState,
                  wireBacklog, isProcessing, throttle, updates, produced, thrown,
                  clientCalls >>
  /\ UNCHANGED varsRetrier
  /\ UNCHANGED enqueued
  /\ UNCHANGED varsParams
  /\ UNCHANGED varsCosts
  /\ UNCHANGED varsConv
  /\ UNCHANGED varsStore

\* The awaited rate-limit hook rejected: the tier throws its error.
RateLimitRejects ==
  /\ tpc = "rateLimit"
  /\ hook = "rejects"
  /\ tpc' = "threw"
  /\ tierOutcome' = "Error:hook"
  /\ UNCHANGED << tier, hook, hookCalls, callback, callerSignal, aixStreaming, dMessage,
                  stateText, tierUpdates >>
  /\ UNCHANGED varsLL
  /\ UNCHANGED varsRetrier
  /\ UNCHANGED enqueued
  /\ UNCHANGED varsParams
  /\ UNCHANGED varsCosts
  /\ UNCHANGED varsConv
  /\ UNCHANGED varsStore

\* The callback Tier 1 hands to Tier 0, called with isDone = false: copy the
\* accumulator into dMessage and await onStreamingUpdate(dMessage, false).
DMessage_StreamingUpdate ==
  /\ tier = "DMessage"
  /\ tpc = "ll"
  /\ isProcessing
  /\ isProcessing' = FALSE
  /\ IF callback # "absent"
       THEN /\ dMessage' = llToDMessage(fragments, genTokenStopReason, dMessage)
            /\ tierUpdates' = Append(tierUpdates, DMessageUpdate(dMessage', FALSE))
       ELSE UNCHANGED << dMessage, tierUpdates >>
  /\ UNCHANGED << tier, tpc, hook, hookCalls, callback, callerSignal, aixStreaming,
                  stateText, tierOutcome >>
  /\ UNCHANGED << llpc, abortSignal, fragments, genTokenStopReason, reassemblerState,
                  wireBacklog, onUpdate, throttle, updates, produced, thrown,
                  clientCalls >>
  /\ UNCHANGED varsRetrier
  /\ UNCHANGED enqueued
  /\ UNCHANGED varsParams
  /\ UNCHANGED varsCosts
  /\ UNCHANGED varsConv
  /\ UNCHANGED varsStore

\* Variant of DMessage_LLFinalCallback: the final update of Tier 0 is passed
\* on to the caller as well.
DMessage_LLFinalCallback_Forwards ==
  /\ tier = "DMessage"
  /\ tpc = "ll"
  /\ llpc = "finalUpdate"
  /\ tpc' = "llFinalCallback"
  /\ dMessage' = llToDMessage(fragments, genTokenStopReason, dMessage)
  /\ tierUpdates' = IF callback # "absent"
                      THEN Append(tierUpdates, DMessageUpdate(dMessage', TRUE))
                      ELSE tierUpdates
  /\ UNCHANGED << tier, hook, hookCalls, callback, callerSignal, aixStreaming,
                  stateText, tierOutcome >>
  /\ UNCHANGED varsLL
  /\ UNCHANGED varsRetrier
  /\ UNCHANGED enqueued
  /\ UNCHANGED varsParams
  /\ UNCHANGED varsCosts
  /\ UNCHANGED varsConv
  /\ UNCHANGED varsStore

\* The same callback called with isDone = true returns at once.
DMessage_LLFinalCallback ==
  /\ tier = "DMessage"
  /\ tpc = "ll"
  /\ llpc = "finalUpdate"
  /\ tpc' = "llFinalCallback"
  /\ UNCHANGED << tier, hook, hookCalls, callback, callerSignal, aixStreaming, dMessage,
                  stateText, tierUpdates, tierOutcome >>
  /\ UNCHANGED varsLL
  /\ UNCHANGED varsRetrier
  /\ UNCHANGED enqueued
  /\ UNCHANGED varsParams
  /\ UNCHANGED varsCosts
  /\ UNCHANGED varsConv
  /\ UNCHANGED varsStore

\* Variant of DMessage_Complete: the fragments are copied before the
\* completion mark is written, and the mark is lost.
DMessage_Complete_MarkLost(dm) ==
  llToDMessage(fragments, genTokenStopReason, dm)

\* Lines 494-497: dMessage.pendingIncomplete = false; _llToDMessage(...).
DMessage_Complete(dm) ==
  llToDMessage(fragments, genTokenStopReason, [dm EXCEPT !.pendingIncomplete = FALSE])

\* Tier 0 returned the accumulator: mark dMessage complete, copy the
\* accumulator, then await onStreamingUpdate?.(dMessage, true).
DMessage_LLReturns ==
  /\ tier = "DMessage"
  /\ tpc = "llFinalCallback"
  /\ llpc' = "returned"
  /\ dMessage' = DMessage_Complete(dMessage)
  /\ IF callback # "absent"
       THEN /\ tierUpdates' = Append(tierUpdates, DMessageUpdate(dMessage', TRUE))
            /\ tpc' = "finalUpdate"
            /\ UNCHANGED tierOutcome
       ELSE /\ tpc' = "returned"
            /\ tierOutcome' = "returned"
            /\ UNCHANGED tierUpdates
  /\ UNCHANGED << tier, hook, hookCalls, callback, callerSignal, aixStreaming, stateText >>
  /\ UNCHANGED << abortSignal, fragments, genTokenStopReason, reassemblerState,
                  wireBacklog, isProcessing, onUpdate, throttle, updates, produced,
                  thrown, clientCalls >>
  /\ UNCHANGED varsRetrier
  /\ UNCHANGED enqueued
  /\ UNCHANGED varsParams
  /\ metricsStore' = updateGeneratorCostsInPlace(metricsStore)
  /\ UNCHANGED costs
  /\ UNCHANGED varsConv
  /\ UNCHANGED varsStore

\* The message of the error _llToText throws for a tool invocation.
ToolInvocationError == "AIX: Unexpected tool invocation in the Text response."

\* The callback Tier 2 hands to Tier 0 when streaming, called with
\* isDone = false: _llToText, then await onTextStreamUpdate(text, false).  A
\* throw of _llToText is caught by the accumulator-level tier, which adds the
\* error text.
Text_StreamUpdate ==
  /\ tier = "Text"
  /\ tpc = "ll"
  /\ isProcessing
  /\ isProcessing' = FALSE
  /\ stateText' = llToText(fragments, stateText)
  /\ IF HasToolInvocation(fragments)
       THEN /\ fragments' = Append(Sealed(fragments), ErrorFragment(ToolInvocationError))
            /\ UNCHANGED tierUpdates
       ELSE /\ tierUpdates' = IF callback # "absent" /\ ~stateText'.isNull
                                THEN Append(tierUpdates, TextUpdate(stateText'.text, FALSE))
                                ELSE tierUpdates
            /\ UNCHANGED fragments
  /\ UNCHANGED << tier, tpc, hook, hookCalls, callback, callerSignal, aixStreaming,
                  dMessage, tierOutcome >>
  /\ UNCHANGED << llpc, abortSignal, genTokenStopReason, reassemblerState,
                  wireBacklog, onUpdate, throttle, updates, produced, thrown,
                  clientCalls >>
  /\ UNCHANGED varsRetrier
  /\ UNCHANGED enqueued
  /\ UNCHANGED varsParams
  /\ UNCHANGED varsCosts
  /\ UNCHANGED varsConv
  /\ UNCHANGED varsStore

\* Variant of Text_LLFinalCallback: the isDone flag of Tier 0 is passed on.
Text_LLFinalCallback_PassesIsDone ==
  /\ tier = "Text"
  /\ tpc = "ll"
  /\ llpc = "finalUpdate"
  /\ stateText' = llToText(fragments, stateText)
  /\ IF HasToolInvocation(fragments)
       THEN /\ llpc' = "rejected"
            /\ tpc' = "threw"
            /\ tierOutcome' = "Error:tool"
            /\ UNCHANGED tierUpdates
       ELSE /\ tpc' = "llFinalCallback"
            /\ tierUpdates' = IF callback # "absent" /\ ~stateText'.isNull
                                THEN Append(tierUpdates, TextUpdate(stateText'.text, TRUE))
                                ELSE tierUpdates
            /\ UNCHANGED << llpc, tierOutcome >>
  /\ UNCHANGED << tier, hook, hookCalls, callback, callerSignal, aixStreaming, dMessage >>
  /\ UNCHANGED << abortSignal, fragments, genTokenStopReason, reassemblerState,
                  wireBacklog, isProcessing, onUpdate, throttle, updates, produced,
                  thrown, clientCalls >>
  /\ UNCHANGED varsRetrier
  /\ UNCHANGED enqueued
  /\ UNCHANGED varsParams
  /\ UNCHANGED varsCosts
  /\ UNCHANGED varsConv
  /\ UNCHANGED varsStore

\* The same callback called with isDone = true (line 710): here a throw of
\* _llToText makes Tier 0, and with it Tier 2, reject.
Text_LLFinalCallback ==
  /\ tier = "Text"
  /\ tpc = "ll"
  /\ llpc = "finalUpdate"
  /\ stateText' = llToText(fragments, stateText)
  /\ IF HasToolInvocation(fragments)
       THEN /\ llpc' = "rejected"
            /\ tpc' = "threw"
            /\ tierOutcome' = "Error:tool"
            /\ UNCHANGED tierUpdates
       ELSE /\ tpc' = "llFinalCallback"
            /\ tierUpdates' = IF callback # "absent" /\ ~stateText'.isNull
                                THEN Append(tierUpdates, TextUpdate(stateText'.text, FALSE))
                                ELSE tierUpdates
            /\ UNCHANGED << llpc, tierOutcome >>
  /\ UNCHANGED << tier, hook, hookCalls, callback, callerSignal, aixStreaming, dMessage >>
  /\ UNCHANGED << abortSignal, fragments, genTokenStopReason, reassemblerState,
                  wireBacklog, isProcessing, onUpdate, throttle, updates, produced,
                  thrown, clientCalls >>
  /\ UNCHANGED varsRetrier
  /\ UNCHANGED enqueued
  /\ UNCHANGED varsParams
  /\ UNCHANGED varsCosts
  /\ UNCHANGED varsConv
  /\ UNCHANGED varsStore

\* Variant of Text_Outcome: a tool invocation is skipped like an annotation.
Text_Outcome_IgnoresTools(fs, text, signalAborted) ==
  IF signalAborted THEN "AbortError"
  ELSE IF text.isNull THEN "Error:empty"
  ELSE IF errorMessage(fs) # << >> THEN "Error:response"
  ELSE "returned"

\* Variant of Text_Outcome: the empty result is looked at before the signal.
Text_Outcome_EmptyFirst(fs, text, signalAborted) ==
  IF HasToolInvocation(fs) THEN "Error:tool"
  ELSE IF text.isNull THEN "Error:empty"
  ELSE IF signalAborted THEN "AbortError"
  ELSE IF errorMessage(fs) # << >> THEN "Error:response"
  ELSE "returned"

\* Lines 321-346 in their order: _llToText throws for a tool invocation; then
\* the signal is looked at; then the empty text; then the error fragments.
Text_Outcome(fs, text, signalAborted) ==
  IF HasToolInvocation(fs) THEN "Error:tool"
  ELSE IF signalAborted THEN "AbortError"
  ELSE IF text.isNull THEN "Error:empty"
  ELSE IF errorMessage(fs) # << >> THEN "Error:response"
  ELSE "returned"

\* Tier 0 returned the accumulator: lines 321-346.
Text_LLReturns ==
  /\ tier = "Text"
  /\ \/ tpc = "llFinalCallback"
     \/ tpc = "ll" /\ llpc = "returned"
  /\ llpc' = "returned"
  /\ stateText' = llToText(fragments, stateText)
  /\ LET result == Text_Outcome(fragments, stateText', abortSignal) IN
       IF result # "returned"
         THEN /\ tpc' = "threw"
              /\ tierOutcome' = result
              /\ UNCHANGED tierUpdates
         ELSE IF callback # "absent"
           THEN /\ tierUpdates' = Append(tierUpdates, TextUpdate(stateText'.text, TRUE))
                /\ tpc' = "finalUpdate"
                /\ UNCHANGED tierOutcome
           ELSE /\ tpc' = "returned"
                /\ tierOutcome' = "returned"
                /\ UNCHANGED tierUpdates
  /\ UNCHANGED << tier, hook, hookCalls, callback, callerSignal, aixStreaming, dMessage >>
  /\ UNCHANGED << abortSignal, fragments, genTokenStopReason, reassemblerState,
                  wireBacklog, isProcessing, onUpdate, throttle, updates, produced,
                  thrown, clientCalls >>
  /\ UNCHANGED varsRetrier
  /\ UNCHANGED enqueued
  /\ UNCHANGED varsParams
  /\ metricsStore' =
       IF Text_Outcome(fragments, stateText', abortSignal) = "Error:tool"
         THEN metricsStore
         ELSE updateGeneratorCostsInPlace(metricsStore)
  /\ UNCHANGED costs
  /\ UNCHANGED varsConv
  /\ UNCHANGED varsStore

\* The awaited final notification returned: the tier returns its result.
TierFinalUpdateReturns ==
  /\ tpc = "finalUpdate"
  /\ callback # "throwsOnDone"
  /\ tpc' = "returned"
  /\ tierOutcome' = "returned"
  /\ UNCHANGED << tier, hook, hookCalls, callback, callerSignal, aixStreaming, dMessage,
                  stateText, tierUpdates >>
  /\ UNCHANGED varsLL
  /\ UNCHANGED varsRetrier
  /\ UNCHANGED enqueued
  /\ UNCHANGED varsParams
  /\ UNCHANGED varsCosts
  /\ UNCHANGED varsConv
  /\ UNCHANGED varsStore

\* The caller fires its cancellation signal; without a signal of the caller
\* Tier 0 is given one that nobody fires.
CallerAborts ==
  /\ callerSignal = "signal"
  /\ tpc \notin {"returned", "threw"}
  /\ ~abortSignal
  /\ abortSignal' = TRUE
  /\ UNCHANGED << llpc, fragments, genTokenStopReason, reassemblerState, wireBacklog,
                  isProcessing, onUpdate, throttle, updates, produced, thrown,
                  clientCalls >>
  /\ UNCHANGED varsTiers
  /\ UNCHANGED varsRetrier
  /\ UNCHANGED enqueued
  /\ UNCHANGED varsParams
  /\ UNCHANGED varsCosts
  /\ UNCHANGED varsConv
  /\ UNCHANGED varsStore

\* Records other calls add to the aggregator while this one runs.
MaxOtherCalls == 1

\* Another call, running concurrently, adds its costs.
OtherCallAddsCosts ==
  /\ Len(SelectSeq(metricsStore, LAMBDA record : record.call = "other")) < MaxOtherCalls
  /\ metricsStore' = Append(metricsStore, CostRecord("other"))
  /\ UNCHANGED costs
  /\ UNCHANGED varsRetrier
  /\ UNCHANGED varsLL
  /\ UNCHANGED varsTiers
  /\ UNCHANGED enqueued
  /\ UNCHANGED varsParams
  /\ UNCHANGED varsConv
  /\ UNCHANGED varsStore

(***************************************************************************)
(* The operations of the reassembler on their own, called in any order in  *)
(* which their effect is defined: particles are accepted while Streaming;  *)
(* setClientAborted while Streaming or Aborted, setClientExcepted while    *)
(* Streaming, finalizeAccumulator in every state, each once the particles  *)
(* accepted before have been applied.  llpc stays "iterating".            *)
(***************************************************************************)
MaxClientCalls == 3

ExceptedMessages == { "An unexpected error occurred", "Unknown error" }

\* reassembler.enqueueWireParticle(particle)
enqueueWireParticle(particle) ==
  /\ reassemblerState = "Streaming"
  /\ Yield(particle)

\* Variant of setClientAborted: an error fragment tells of the cancellation.
setClientAborted_AppendsError ==
  /\ llpc = "iterating"
  /\ reassemblerState \in {"Streaming", "Aborted"}
  /\ wireBacklog = << >> /\ ~isProcessing
  /\ Len(clientCalls) < MaxClientCalls
  /\ genTokenStopReason' = "client-abort"
  /\ reassemblerState' = "Aborted"
  /\ fragments' = Append(Sealed(fragments), ErrorFragment("Stopped"))
  /\ clientCalls' = Append(clientCalls, "setClientAborted")
  /\ UNCHANGED << llpc, abortSignal, wireBacklog, isProcessing,
                  onUpdate, throttle, updates, produced, thrown >>
  /\ UNCHANGED enqueued
  /\ UNCHANGED varsRetrier
  /\ UNCHANGED varsTiers
  /\ UNCHANGED varsParams
  /\ UNCHANGED varsCosts
  /\ UNCHANGED varsConv
  /\ UNCHANGED varsStore

\* reassembler.setClientAborted(): the stop reason becomes the user's
\* cancellation, the fragments stay as they are.
setClientAborted ==
  /\ llpc = "iterating"
  /\ reassemblerState \in {"Streaming", "Aborted"}
  /\ wireBacklog = << >> /\ ~isProcessing
  /\ Len(clientCalls) < MaxClientCalls
  /\ genTokenStopReason' = "client-abort"
  /\ reassemblerState' = "Aborted"
  /\ clientCalls' = Append(clientCalls, "setClientAborted")
  /\ UNCHANGED << llpc, abortSignal, fragments, wireBacklog, isProcessing,
                  onUpdate, throttle, updates, produced, thrown >>
  /\ UNCHANGED enqueued
  /\ UNCHANGED varsRetrier
  /\ UNCHANGED varsTiers
  /\ UNCHANGED varsParams
  /\ UNCHANGED varsCosts
  /\ UNCHANGED varsConv
  /\ UNCHANGED varsStore

\* Variant of setClientExcepted: the error fragment replaces the content.
setClientExcepted_ReplacesContent(message) ==
  /\ llpc = "iterating"
  /\ reassemblerState = "Streaming"
  /\ wireBacklog = << >> /\ ~isProcessing
  /\ Len(clientCalls) < MaxClientCalls
  /\ fragments' = << ErrorFragment(message) >>
  /\ reassemblerState' = "Excepted"
  /\ clientCalls' = Append(clientCalls, "setClientExcepted")
  /\ UNCHANGED << llpc, abortSignal, genTokenStopReason, wireBacklog, isProcessing,
                  onUpdate, throttle, updates, produced, thrown >>
  /\ UNCHANGED enqueued
  /\ UNCHANGED varsRetrier
  /\ UNCHANGED varsTiers
  /\ UNCHANGED varsParams
  /\ UNCHANGED varsCosts
  /\ UNCHANGED varsConv
  /\ UNCHANGED varsStore

\* reassembler.setClientExcepted(message): an error fragment with the
\* message is appended after the fragments accumulated so far.
setClientExcepted(message) ==
  /\ llpc = "iterating"
  /\ reassemblerState = "Streaming"
  /\ wireBacklog = << >> /\ ~isProcessing
  /\ Len(clientCalls) < MaxClientCalls
  /\ fragments' = Append(Sealed(fragments), ErrorFragment(message))
  /\ reassemblerState' = "Excepted"
  /\ clientCalls' = Append(clientCalls, "setClientExcepted")
  /\ UNCHANGED << llpc, abortSignal, genTokenStopReason, wireBacklog, isProcessing,
                  onUpdate, throttle, updates, produced, thrown >>
  /\ UNCHANGED enqueued
  /\ UNCHANGED varsRetrier
  /\ UNCHANGED varsTiers
  /\ UNCHANGED varsParams
  /\ UNCHANGED varsCosts
  /\ UNCHANGED varsConv
  /\ UNCHANGED varsStore

\* reassembler.finalizeAccumulator(): seals the open text fragment and
\* completes unless aborted or excepted.
finalizeAccumulator ==
  /\ llpc = "iterating"
  /\ wireBacklog = << >> /\ ~isProcessing
  /\ Len(clientCalls) < MaxClientCalls
  /\ fragments' = Sealed(fragments)
  /\ reassemblerState' = finalizeState(reassemblerState)
  /\ clientCalls' = Append(clientCalls, "finalizeAccumulator")
  /\ UNCHANGED << llpc, abortSignal, genTokenStopReason, wireBacklog, isProcessing,
                  onUpdate, throttle, updates, produced, thrown >>
  /\ UNCHANGED enqueued
  /\ UNCHANGED varsRetrier
  /\ UNCHANGED varsTiers
  /\ UNCHANGED varsParams
  /\ UNCHANGED varsCosts
  /\ UNCHANGED varsConv
  /\ UNCHANGED varsStore

(***************************************************************************)
(* Resolution of the model parameters.  An object is a function from its  *)
(* keys to values; values are written as strings, "undefined" and "null"  *)
(* being the JavaScript values of these names.                            *)
(***************************************************************************)
LLMImplicitParamersRuntimeFallback ==
  [llmResponseTokens |-> "8192", llmTemperature |-> "0.5"]

\* { ...a, ...b }: the keys of both, the value of b where b has the key.
Spread(a, b) ==
  [k \in DOMAIN a \cup DOMAIN b |-> IF k \in DOMAIN b THEN b[k] ELSE a[k]]

\* delete o[key] on the object o.
Delete(o, key) == [k \in DOMAIN o \ {key} |-> o[k]]

\* o[key], undefined for a key the object does not have.
Get(o, key) == IF key \in DOMAIN o THEN o[key] ELSE "undefined"

\* The values an if or a conditional takes as false.
Falsy(v) == v \in {"undefined", "null", "0", ""}

\* The object with the keys of keys, its values taken from values.
Layer(keys, values) == [k \in keys |-> values[k]]

LLM_IF_HOTFIX_NoTemperature == "hotfix-no-temperature"

\* The layers the parameters are drawn from.
InitialLayers ==
  { Layer(keys, [llmRef |-> "model-initial", llmTemperature |-> "0.7",
                 llmResponseTokens |-> "4096"]) :
      keys \in SUBSET {"llmRef", "llmTemperature", "llmResponseTokens"} }

UserLayers ==
  { Layer(keys, [llmRef |-> "model-user", llmTemperature |-> temperature,
                 llmResponseTokens |-> "null", llmTopP |-> "0.95"]) :
      keys \in SUBSET {"llmRef", "llmTemperature", "llmResponseTokens", "llmTopP"},
      temperature \in {"0.9", "undefined"} }

OverrideLayers ==
  { Layer(keys, [llmRef |-> "model-override", llmTemperature |-> "1.1",
                 llmResponseTokens |-> "1024", llmTopP |-> "0.8"]) :
      keys \in SUBSET {"llmRef", "llmTemperature", "llmResponseTokens", "llmTopP"} }

NoOverride == [defined |-> FALSE, values |-> << >>]

InitParams ==
  /\ ppc = "start"
  /\ initialParameters \in InitialLayers
  /\ userParameters \in UserLayers
  /\ llmOptionsOverride \in
       {NoOverride} \cup { [defined |-> TRUE, values |-> o] : o \in OverrideLayers }
  /\ llmInterfaces \in SUBSET {LLM_IF_HOTFIX_NoTemperature}
  /\ llmParameters = << >>
  /\ aixModel = << >>
  /\ withFallback = << >>

\* Variant of getAllModelParameterValues: the user's values under the
\* model's initial values.
getAllModelParameterValues_InitialOverUser ==
  /\ ppc = "start"
  /\ ppc' = "resolved"
  /\ llmParameters' =
       Spread(Spread(LLMImplicitParamersRuntimeFallback, userParameters),
              initialParameters)
  /\ UNCHANGED << initialParameters, userParameters, llmOptionsOverride,
                  llmInterfaces, aixModel >>
  /\ UNCHANGED withFallback
  /\ UNCHANGED varsRetrier
  /\ UNCHANGED varsLL
  /\ UNCHANGED varsTiers
  /\ UNCHANGED enqueued
  /\ UNCHANGED varsCosts
  /\ UNCHANGED varsConv
  /\ UNCHANGED varsStore

\* Lines 256 and 437: the three base layers spread into one object.
getAllModelParameterValues ==
  /\ ppc = "start"
  /\ ppc' = "resolved"
  /\ llmParameters' =
       Spread(Spread(LLMImplicitParamersRuntimeFallback, initialParameters),
              userParameters)
  /\ UNCHANGED << initialParameters, userParameters, llmOptionsOverride,
                  llmInterfaces, aixModel >>
  /\ UNCHANGED withFallback
  /\ UNCHANGED varsRetrier
  /\ UNCHANGED varsLL
  /\ UNCHANGED varsTiers
  /\ UNCHANGED enqueued
  /\ UNCHANGED varsCosts
  /\ UNCHANGED varsConv
  /\ UNCHANGED varsStore

\* getModelParameterValueWithFallback: the user's value, else the initial
\* value, each only when the key is there with a value that is not
\* undefined, else the fallback handed in.
getModelParameterValueWithFallback(paramId, initialValues, userValues, fallbackValue) ==
  IF paramId \in DOMAIN userValues /\ userValues[paramId] # "undefined"
    THEN userValues[paramId]
  ELSE IF paramId \in DOMAIN initialValues /\ initialValues[paramId] # "undefined"
    THEN initialValues[paramId]
  ELSE fallbackValue

DModelParameterIds == {"llmRef", "llmTemperature", "llmResponseTokens", "llmTopP"}

\* Both resolvers are asked for every parameter id, the second one with the
\* runtime fallback of the id.
ResolveWithFallback ==
  /\ ppc = "resolved"
  /\ withFallback = << >>
  /\ withFallback' =
       [paramId \in DModelParameterIds |->
          getModelParameterValueWithFallback(paramId, initialParameters, userParameters,
            Get(LLMImplicitParamersRuntimeFallback, paramId))]
  /\ UNCHANGED << ppc, initialParameters, userParameters, llmOptionsOverride,
                  llmInterfaces, llmParameters, aixModel >>
  /\ UNCHANGED varsRetrier
  /\ UNCHANGED varsLL
  /\ UNCHANGED varsTiers
  /\ UNCHANGED enqueued
  /\ UNCHANGED varsCosts
  /\ UNCHANGED varsConv
  /\ UNCHANGED varsStore

\* The AixAPI_Model of lines 92-96 for the destructured values.
AixModelOf(options, interfaces) ==
  LET llmTemperature == Get(options, "llmTemperature")
      llmResponseTokens == Get(options, "llmResponseTokens")
      llmTopP == Get(options, "llmTopP")
      hotfixOmitTemperature == LLM_IF_HOTFIX_NoTemperature \in interfaces
  IN Spread(Spread(Spread([id |-> Get(options, "llmRef")],
       IF hotfixOmitTemperature THEN [temperature |-> "null"]
       ELSE IF llmTemperature # "undefined" THEN [temperature |-> llmTemperature]
       ELSE << >>),
       IF ~Falsy(llmResponseTokens) THEN [maxTokens |-> llmResponseTokens] ELSE << >>),
       IF llmTopP # "undefined" THEN [topP |-> llmTopP] ELSE << >>)

\* Variant of aixCreateModelFromLLMOptions: the llmRef key is deleted from
\* the caller's object, and after the spread.
aixCreateModelFromLLMOptions_DeletesLate ==
  /\ ppc = "resolved"
  /\ LET options == IF llmOptionsOverride.defined
                      THEN Spread(llmParameters, llmOptionsOverride.values)
                      ELSE llmParameters
     IN /\ llmOptionsOverride' =
             IF llmOptionsOverride.defined
               THEN [llmOptionsOverride EXCEPT !.values = Delete(@, "llmRef")]
               ELSE llmOptionsOverride
        /\ IF Falsy(Get(options, "llmRef"))
             THEN ppc' = "threw" /\ aixModel' = aixModel
             ELSE ppc' = "created" /\ aixModel' = AixModelOf(options, llmInterfaces)
  /\ UNCHANGED << initialParameters, userParameters, llmInterfaces, llmParameters >>
  /\ UNCHANGED withFallback
  /\ UNCHANGED varsRetrier
  /\ UNCHANGED varsLL
  /\ UNCHANGED varsTiers
  /\ UNCHANGED enqueued
  /\ UNCHANGED varsCosts
  /\ UNCHANGED varsConv
  /\ UNCHANGED varsStore

\* Lines 33-114: the override is copied, llmRef is deleted from the copy,
\* the copy is spread over llmOptions, and the call throws without llmRef.
aixCreateModelFromLLMOptions ==
  /\ ppc = "resolved"
  /\ LET copy == IF llmOptionsOverride.defined
                   THEN Delete(llmOptionsOverride.values, "llmRef")
                   ELSE << >>
         options == Spread(llmParameters, copy)
     IN IF Falsy(Get(options, "llmRef"))
          THEN ppc' = "threw" /\ aixModel' = aixModel
          ELSE ppc' = "created" /\ aixModel' = AixModelOf(options, llmInterfaces)
  /\ UNCHANGED << initialParameters, userParameters, llmOptionsOverride,
                  llmInterfaces, llmParameters >>
  /\ UNCHANGED withFallback
  /\ UNCHANGED varsRetrier
  /\ UNCHANGED varsLL
  /\ UNCHANGED varsTiers
  /\ UNCHANGED enqueued
  /\ UNCHANGED varsCosts
  /\ UNCHANGED varsConv
  /\ UNCHANGED varsStore

(***************************************************************************)
(* Specifications.                                                         *)
(***************************************************************************)
vars ==
  << varsRetrier, varsLL, varsTiers, enqueued, varsParams, varsCosts, varsConv, varsStore >>

\* One createRetryablePromise call; no accumulator-level call is running.
Init ==
  /\ InitRetrier
  /\ llpc = "mutate" /\ abortSignal = FALSE /\ fragments = << >>
  /\ genTokenStopReason = "none" /\ reassemblerState = "Streaming"
  /\ wireBacklog = << >> /\ isProcessing = FALSE /\ onUpdate = "absent"
  /\ throttle = 0 /\ updates = << >> /\ produced = 0 /\ thrown = "none"
  /\ clientCalls = << >>
  /\ tier = "DMessage" /\ tpc = "start" /\ hook = "absent" /\ hookCalls = 0
  /\ callback = "absent" /\ callerSignal = "signal" /\ aixStreaming = FALSE
  /\ dMessage = [fragments |-> << >>, pendingIncomplete |-> TRUE, tokenStopReason |-> "none"]
  /\ stateText = [isNull |-> TRUE, text |-> << >>]
  /\ tierUpdates = << >> /\ tierOutcome = "none"
  /\ enqueued = << >>
  /\ ppc = "start" /\ initialParameters = << >> /\ userParameters = << >>
  /\ llmOptionsOverride = << >> /\ llmInterfaces = {} /\ llmParameters = << >>
  /\ aixModel = << >>
  /\ withFallback = << >>
  /\ metricsStore = << >> /\ costs = FALSE
  /\ cpc = "idle" /\ conv = << >>
  /\ llms = << >> /\ storeOps = "none"

Next ==
  \/ OperationResolves
  \/ \E e \in Errors : CatchAborted(e)
  \/ \E e \in Errors : CatchNotRetryable(e)
  \/ \E e \in Errors : CatchExhausted(e)
  \/ \E e \in Errors : \E j \in JitterSamples : CatchRetry(e, j)
  \/ DelayElapsed
  \/ DelayAborted
  \/ Abort

Spec == Init /\ [][Next]_vars

\* One _aixChatGenerateContent_LL call; no retrier call is running.
InitLLOnly ==
  /\ InitLL
  /\ pc = "returned" /\ attemptNumber = 1 /\ aborted = FALSE /\ error = NoError
  /\ rp = NoProfile /\ delayMs = 0 /\ onRetry = "absent" /\ onRetryLog = << >>
  /\ invocations = 0 /\ classified = 0 /\ profilesSeen = {} /\ abortedAt = "never"
  /\ outcome = "pending" /\ rejectedWith = NoError /\ settleCalls = 0
  /\ tier = "DMessage" /\ tpc = "start" /\ hook = "absent" /\ hookCalls = 0
  /\ callback = "absent" /\ callerSignal = "signal" /\ aixStreaming = FALSE
  /\ dMessage = [fragments |-> << >>, pendingIncomplete |-> TRUE, tokenStopReason |-> "none"]
  /\ stateText = [isNull |-> TRUE, text |-> << >>]
  /\ tierUpdates = << >> /\ tierOutcome = "none"
  /\ enqueued = << >>
  /\ ppc = "start" /\ initialParameters = << >> /\ userParameters = << >>
  /\ llmOptionsOverride = << >> /\ llmInterfaces = {} /\ llmParameters = << >>
  /\ aixModel = << >>
  /\ withFallback = << >>
  /\ metricsStore = << >> /\ costs = FALSE
  /\ cpc = "idle" /\ conv = << >>
  /\ llms = << >> /\ storeOps = "none"

NextLL ==
  \/ MutateResolves
  \/ \E particle \in Particles : Yield(particle)
  \/ IterationEnds
  \/ \E errorName \in {"AbortError", "Error"} : TransportThrows(errorName)
  \/ \E emit \in BOOLEAN : ProcessParticle(emit)
  \/ UpdateReturns
  \/ WireComplete
  \/ ClientAborted
  \/ ClientExcepted
  \/ FinalUpdateReturns
  \/ FinalUpdateThrows
  \/ AbortLL

SpecLL == InitLLOnly /\ [][NextLL]_vars

\* One Tier 1 or Tier 2 call with the accumulator-level call it makes.
NextTiers ==
  \/ DMessage_Start
  \/ DMessage_InitialUpdateReturns
  \/ Text_Start
  \/ RateLimitResolves
  \/ RateLimitRejects
  \/ MutateResolves
  \/ \E particle \in Particles : TierYield(particle)
  \/ IterationEnds
  \/ \E errorName \in {"AbortError", "Error"} : TransportThrows(errorName)
  \/ \E emit \in BOOLEAN : ProcessParticle(emit)
  \/ WireComplete
  \/ ClientAborted
  \/ ClientExcepted
  \/ DMessage_StreamingUpdate
  \/ DMessage_LLFinalCallback
  \/ DMessage_LLReturns
  \/ Text_StreamUpdate
  \/ Text_LLFinalCallback
  \/ Text_LLReturns
  \/ TierFinalUpdateReturns
  \/ CallerAborts

SpecTiers == InitTiers /\ [][NextTiers]_vars

\* One Tier 1 or Tier 2 call next to other calls that add their costs.
InitCosts ==
  /\ tier \in {"DMessage", "Text"}
  /\ tpc = "start"
  /\ hook \in {"absent", "resolves", "rejects"}
  /\ hookCalls = 0
  /\ callback \in {"absent", "returns"}
  /\ callerSignal \in (IF tier = "Text" THEN {"signal", "NON_ABORTABLE", "none"}
                                        ELSE {"signal", "NON_ABORTABLE"})
  /\ aixStreaming \in (IF tier = "Text" /\ callback # "absent" THEN BOOLEAN
                       ELSE IF tier = "Text" THEN {FALSE} ELSE {TRUE})
  /\ dMessage = [fragments |-> << >>, pendingIncomplete |-> TRUE, tokenStopReason |-> "none"]
  /\ stateText = [isNull |-> TRUE, text |-> << >>]
  /\ tierUpdates = << >>
  /\ tierOutcome = "none"
  /\ llpc = "notStarted"
  /\ abortSignal \in (IF callerSignal = "signal" THEN BOOLEAN ELSE {FALSE})
  /\ fragments = << >> /\ genTokenStopReason = "none" /\ reassemblerState = "Streaming"
  /\ wireBacklog = << >> /\ isProcessing = FALSE /\ onUpdate = "absent"
  /\ throttle = 0
  /\ updates = << >> /\ produced = 0 /\ thrown = "none" /\ clientCalls = << >>
  /\ pc = "returned" /\ attemptNumber = 1 /\ aborted = FALSE /\ error = NoError
  /\ rp = NoProfile /\ delayMs = 0 /\ onRetry = "absent" /\ onRetryLog = << >>
  /\ invocations = 0 /\ classified = 0 /\ profilesSeen = {} /\ abortedAt = "never"
  /\ outcome = "pending" /\ rejectedWith = NoError /\ settleCalls = 0
  /\ enqueued = << >>
  /\ ppc = "start" /\ initialParameters = << >> /\ userParameters = << >>
  /\ llmOptionsOverride = << >> /\ llmInterfaces = {} /\ llmParameters = << >>
  /\ aixModel = << >>
  /\ withFallback = << >>
  /\ metricsStore = << >> /\ costs \in BOOLEAN
  /\ cpc = "idle" /\ conv = << >>
  /\ llms = << >> /\ storeOps = "none"

NextCosts ==
  \/ DMessage_Start
  \/ DMessage_InitialUpdateReturns
  \/ Text_Start
  \/ RateLimitResolves
  \/ RateLimitRejects
  \/ MutateResolves
  \/ \E particle \in Particles : TierYield(particle)
  \/ IterationEnds
  \/ \E errorName \in {"AbortError", "Error"} : TransportThrows(errorName)
  \/ \E emit \in BOOLEAN : ProcessParticle(emit)
  \/ WireComplete
  \/ ClientAborted
  \/ ClientExcepted
  \/ DMessage_StreamingUpdate
  \/ DMessage_LLFinalCallback
  \/ DMessage_LLReturns
  \/ Text_StreamUpdate
  \/ Text_LLFinalCallback
  \/ Text_LLReturns
  \/ TierFinalUpdateReturns
  \/ CallerAborts
  \/ OtherCallAddsCosts

SpecCosts == InitCosts /\ [][NextCosts]_vars

(***************************************************************************)
(* aixChatGenerateContent_DMessage_FromConversation: builds the request,   *)
(* runs the message-level tier with streaming and a callback that keeps    *)
(* the last update, and turns every throw into an 'Issue' error fragment.  *)
(***************************************************************************)

\* The values request building, the message-level tier or the caller's
\* callback may throw: an Error with a message (also the empty one), or a
\* string.
ThrownValues ==
  { [isString |-> FALSE, message |-> "LLM not found"],
    [isString |-> FALSE, message |-> "Rate limited"],
    [isString |-> FALSE, message |-> ""],
    [isString |-> TRUE,  message |-> "halt"],
    [isString |-> TRUE,  message |-> ""] }

\* Line 192: error.message || (typeof error === 'string' ? error : 'Chat stopped.')
\* (a string has no message).
errorMessageOf(e) ==
  IF ~e.isString /\ e.message # "" THEN e.message
  ELSE IF e.isString THEN e.message
  ELSE "Chat stopped."

\* Line 193: `Issue: ${errorMessage}`.
IssueText(message) ==
  CASE message = "LLM not found" -> "Issue: LLM not found"
    [] message = "Rate limited"  -> "Issue: Rate limited"
    [] message = "Chat stopped." -> "Issue: Chat stopped."
    [] message = "halt"          -> "Issue: halt"
    [] message = ""              -> "Issue: "

\* Lines 159-166: the message the wrapper starts with.
InitialLastDMessage ==
  [fragments |-> << >>, pendingIncomplete |-> TRUE, tokenStopReason |-> "none"]

\* The object lastDMessage refers to: the wrapper's own until the tier's
\* first notification (line 182), then the tier's dMessage.
LastDMessage == IF tierUpdates # << >> THEN dMessage ELSE conv.lastDMessage

\* Lines 204-208: the status returned.
StreamMessageStatus(message, convErrorMessage) ==
  [outcome |-> IF convErrorMessage # "undefined" /\ convErrorMessage # "" THEN "errored"
               ELSE IF message.tokenStopReason = "client-abort" THEN "aborted"
               ELSE "success",
   lastDMessage |-> message,
   errorMessage |-> IF convErrorMessage = "" THEN "undefined" ELSE convErrorMessage]

\* Variant of Caught: the message is left pending.
Caught_LeavesPending(message, e) ==
  [message EXCEPT !.fragments = Append(@, ErrorFragment(IssueText(errorMessageOf(e)))),
                  !.tokenStopReason = "issue"]

\* Variant of Caught: the error fragment replaces the content.
Caught_ReplacesContent(message, e) ==
  [message EXCEPT !.fragments = << ErrorFragment(IssueText(errorMessageOf(e))) >>,
                  !.tokenStopReason = "issue",
                  !.pendingIncomplete = FALSE]

\* Lines 187-199, the catch block: push the error fragment, set the stop
\* reason, clear pendingIncomplete.
Caught(message, e) ==
  [message EXCEPT !.fragments = Append(@, ErrorFragment(IssueText(errorMessageOf(e)))),
                  !.tokenStopReason = "issue",
                  !.pendingIncomplete = FALSE]

\* The catch block and the return after it; the message it changes is the
\* tier's dMessage when lastDMessage refers to it.
CatchAndReturn(e) ==
  /\ conv' = StreamMessageStatus(Caught(LastDMessage, e), errorMessageOf(e))
  /\ dMessage' = IF tierUpdates # << >> THEN Caught(dMessage, e) ELSE dMessage
  /\ cpc' = "returned"

\* Lines 171-174: aixCGR_SystemMessage_FromDMessageOrThrow or
\* aixCGR_ChatSequence_FromDMessagesOrThrow throws.
Conv_RequestBuildingThrows(e) ==
  /\ cpc = "building"
  /\ CatchAndReturn(e)
  /\ UNCHANGED << tier, tpc, hook, hookCalls, callback, callerSignal, aixStreaming,
                  stateText, tierUpdates, tierOutcome >>
  /\ UNCHANGED varsLL
  /\ UNCHANGED varsRetrier
  /\ UNCHANGED enqueued
  /\ UNCHANGED varsParams
  /\ UNCHANGED varsCosts
  /\ UNCHANGED varsStore

\* Lines 171-176: the request is built and the message-level tier is called.
Conv_RequestBuilt ==
  /\ cpc = "building"
  /\ cpc' = "tier1"
  /\ tpc' = "start"
  /\ UNCHANGED conv
  /\ UNCHANGED << tier, hook, hookCalls, callback, callerSignal, aixStreaming, dMessage,
                  stateText, tierUpdates, tierOutcome >>
  /\ UNCHANGED varsLL
  /\ UNCHANGED varsRetrier
  /\ UNCHANGED enqueued
  /\ UNCHANGED varsParams
  /\ UNCHANGED varsCosts
  /\ UNCHANGED varsStore

\* Line 433: findLLMOrThrow throws before the tier has a dMessage.
DMessage_FindLLMThrows ==
  /\ cpc = "tier1"
  /\ tier = "DMessage"
  /\ tpc = "start"
  /\ tpc' = "threw"
  /\ tierOutcome' = "Error:llm"
  /\ UNCHANGED << tier, hook, hookCalls, callback, callerSignal, aixStreaming, dMessage,
                  stateText, tierUpdates >>
  /\ UNCHANGED varsLL
  /\ UNCHANGED varsRetrier
  /\ UNCHANGED enqueued
  /\ UNCHANGED varsParams
  /\ UNCHANGED varsCosts
  /\ UNCHANGED varsConv
  /\ UNCHANGED varsStore

\* Line 501: the awaited onStreamingUpdate(dMessage, true) throws, and so
\* does the tier.
TierFinalUpdateThrows ==
  /\ tpc = "finalUpdate"
  /\ callback = "throwsOnDone"
  /\ tpc' = "threw"
  /\ tierOutcome' = "Error:callback"
  /\ UNCHANGED << tier, hook, hookCalls, callback, callerSignal, aixStreaming, dMessage,
                  stateText, tierUpdates >>
  /\ UNCHANGED varsLL
  /\ UNCHANGED varsRetrier
  /\ UNCHANGED enqueued
  /\ UNCHANGED varsParams
  /\ UNCHANGED varsCosts
  /\ UNCHANGED varsConv
  /\ UNCHANGED varsStore

\* Lines 176-185 and 187: the awaited tier threw.
Conv_Tier1Throws(e) ==
  /\ cpc = "tier1"
  /\ tpc = "threw"
  /\ CatchAndReturn(e)
  /\ UNCHANGED << tier, tpc, hook, hookCalls, callback, callerSignal, aixStreaming,
                  stateText, tierUpdates, tierOutcome >>
  /\ UNCHANGED varsLL
  /\ UNCHANGED varsRetrier
  /\ UNCHANGED enqueued
  /\ UNCHANGED varsParams
  /\ UNCHANGED varsCosts
  /\ UNCHANGED varsStore

\* Lines 176-185 and 204-208: the awaited tier returned.
Conv_Tier1Returns ==
  /\ cpc = "tier1"
  /\ tpc = "returned"
  /\ conv' = StreamMessageStatus(LastDMessage, "undefined")
  /\ cpc' = "returned"
  /\ UNCHANGED varsTiers
  /\ UNCHANGED varsLL
  /\ UNCHANGED varsRetrier
  /\ UNCHANGED enqueued
  /\ UNCHANGED varsParams
  /\ UNCHANGED varsCosts
  /\ UNCHANGED varsStore

\* One call of the wrapper: Tier 1 is called with streaming and a callback.
InitConversation ==
  /\ tier = "DMessage"
  /\ tpc = "idle"
  /\ hook \in {"absent", "resolves", "rejects"}
  /\ hookCalls = 0
  /\ callback \in {"returns", "throwsOnDone"}
  /\ callerSignal \in {"signal", "NON_ABORTABLE"}
  /\ aixStreaming = TRUE
  /\ dMessage = [fragments |-> << >>, pendingIncomplete |-> TRUE, tokenStopReason |-> "none"]
  /\ stateText = [isNull |-> TRUE, text |-> << >>]
  /\ tierUpdates = << >>
  /\ tierOutcome = "none"
  /\ llpc = "notStarted"
  /\ abortSignal \in (IF callerSignal = "signal" THEN BOOLEAN ELSE {FALSE})
  /\ fragments = << >> /\ genTokenStopReason = "none" /\ reassemblerState = "Streaming"
  /\ wireBacklog = << >> /\ isProcessing = FALSE /\ onUpdate = "absent"
  /\ throttle = 0
  /\ updates = << >> /\ produced = 0 /\ thrown = "none" /\ clientCalls = << >>
  /\ pc = "returned" /\ attemptNumber = 1 /\ aborted = FALSE /\ error = NoError
  /\ rp = NoProfile /\ delayMs = 0 /\ onRetry = "absent" /\ onRetryLog = << >>
  /\ invocations = 0 /\ classified = 0 /\ profilesSeen = {} /\ abortedAt = "never"
  /\ outcome = "pending" /\ rejectedWith = NoError /\ settleCalls = 0
  /\ enqueued = << >>
  /\ ppc = "start" /\ initialParameters = << >> /\ userParameters = << >>
  /\ llmOptionsOverride = << >> /\ llmInterfaces = {} /\ llmParameters = << >>
  /\ aixModel = << >>
  /\ withFallback = << >>
  /\ metricsStore = << >> /\ costs = FALSE
  /\ cpc = "building"
  /\ conv = StreamMessageStatus(InitialLastDMessage, "undefined")
  /\ llms = << >> /\ storeOps = "none"

NextConversation ==
  \/ \E e \in ThrownValues : Conv_RequestBuildingThrows(e)
  \/ Conv_RequestBuilt
  \/ DMessage_FindLLMThrows
  \/ DMessage_Start
  \/ DMessage_InitialUpdateReturns
  \/ RateLimitResolves
  \/ RateLimitRejects
  \/ MutateResolves
  \/ \E particle \in Particles : TierYield(particle)
  \/ IterationEnds
  \/ \E errorName \in {"AbortError", "Error"} : TransportThrows(errorName)
  \/ \E emit \in BOOLEAN : ProcessParticle(emit)
  \/ WireComplete
  \/ ClientAborted
  \/ ClientExcepted
  \/ DMessage_StreamingUpdate
  \/ DMessage_LLFinalCallback
  \/ DMessage_LLReturns
  \/ TierFinalUpdateReturns
  \/ TierFinalUpdateThrows
  \/ CallerAborts
  \/ \E e \in ThrownValues : Conv_Tier1Throws(e)
  \/ Conv_Tier1Returns

SpecConversation == InitConversation /\ [][NextConversation]_vars

(***************************************************************************)
(* The models store (store-llms.ts): setLLMs, updateLLMUserParameters and  *)
(* deleteLLMUserParameter on state.llms.  A model is a record of its id,   *)
(* its service id, the vendor's data (label, initialParameters) and the    *)
(* user's edits; an edit that is undefined is written "undefined", and     *)
(* userParameters is an object or not defined.                             *)
(***************************************************************************)
DLLMIds == {"m1", "m2"}

DModelsServiceIds == {"s1", "s2"}

\* An object without keys.
NoValues == [k \in {} |-> "undefined"]

NoUserParameters == [defined |-> FALSE, values |-> NoValues]

\* What the vendor describes of a model.
VendorData ==
  { [label |-> "v1", initialParameters |-> [llmTemperature |-> "0.7"]],
    [label |-> "v2", initialParameters |-> NoValues] }

\* The parameters the user edits here, and the value each is set to.
EditedParameterValues == [llmTemperature |-> "0.9", llmTopP |-> "0.95"]

UserParameterObjects ==
  { Layer(keys, EditedParameterValues) : keys \in SUBSET DOMAIN EditedParameterValues }

DLLM(id, sId, vendor, userLabel, userHidden, userParams) ==
  [id |-> id, sId |-> sId, label |-> vendor.label,
   initialParameters |-> vendor.initialParameters,
   userLabel |-> userLabel, userHidden |-> userHidden,
   userParameters |-> userParams]

\* The user edits m1 only: its label, its hidden flag and its parameters.
EditedIds == {"m1"}

UserLabels(id) == IF id \in EditedIds THEN {"undefined", "Mine"} ELSE {"undefined"}

UserHiddens(id) == IF id \in EditedIds THEN {"undefined", "true"} ELSE {"undefined"}

UserParametersOf(id) ==
  {NoUserParameters} \cup
    (IF id \in EditedIds
       THEN { [defined |-> TRUE, values |-> o] : o \in UserParameterObjects }
       ELSE {})

\* The models of one id the store may hold.
StoredModels(id) ==
  { DLLM(id, sId, vendor, userLabel, userHidden, userParams) :
      sId \in DModelsServiceIds, vendor \in VendorData,
      userLabel \in UserLabels(id), userHidden \in UserHiddens(id),
      userParams \in UserParametersOf(id) }

\* The models of one id a service hands to setLLMs: its current description,
\* without parameters of the user.
IncomingModels(id, serviceId) ==
  { DLLM(id, serviceId, vendor, userLabel, "undefined", NoUserParameters) :
      vendor \in { v \in VendorData : v.label = "v2" }, userLabel \in UserLabels(id) }

\* The lists of at most two models with distinct ids, the models of an id
\* taken from models[id].
ListsOf(models) ==
  LET all == UNION { models[id] : id \in DLLMIds }
  IN  {<< >>}
        \cup { << m >> : m \in all }
        \cup { pair \in all \X all : pair[1].id # pair[2].id }

\* state.llms.find(m => m.id === id): its index, 0 when there is none.
FindLLM(models, id) ==
  IF \E i \in 1..Len(models) : models[i].id = id
    THEN CHOOSE i \in 1..Len(models) :
           /\ models[i].id = id
           /\ \A j \in 1..(i - 1) : models[j].id # id
    ELSE 0

\* Variant of KeepUserEdits: the stored userHidden is not kept.
KeepUserEdits_DropsHidden(llm, existing) ==
  [llm EXCEPT
     !.userLabel = IF existing.userLabel # "undefined" THEN existing.userLabel ELSE @,
     !.userParameters = IF existing.userParameters.defined
                          THEN existing.userParameters ELSE @]

\* Lines 78-83: the incoming model with the stored edits that are defined.
KeepUserEdits(llm, existing) ==
  [llm EXCEPT
     !.userLabel = IF existing.userLabel # "undefined" THEN existing.userLabel ELSE @,
     !.userHidden = IF existing.userHidden # "undefined" THEN existing.userHidden ELSE @,
     !.userParameters = IF existing.userParameters.defined
                          THEN existing.userParameters ELSE @]

\* Lines 70-96.
setLLMs(incoming, serviceId, deleteExpiredVendorLlms, keepUserEdits) ==
  LET kept == IF keepUserEdits
                THEN [i \in 1..Len(incoming) |->
                        LET existing == FindLLM(llms, incoming[i].id)
                        IN  IF existing = 0 THEN incoming[i]
                            ELSE KeepUserEdits(incoming[i], llms[existing])]
                ELSE incoming
      otherLlms == IF deleteExpiredVendorLlms
                     THEN SelectSeq(llms, LAMBDA llm : llm.sId # serviceId)
                     ELSE llms
      newLlms == kept \o SelectSeq(otherLlms, LAMBDA llm : FindLLM(kept, llm.id) = 0)
  IN  /\ llms' = newLlms
      /\ storeOps' = "setLLMs"
      /\ UNCHANGED varsRetrier
      /\ UNCHANGED varsLL
      /\ UNCHANGED varsTiers
      /\ UNCHANGED enqueued
      /\ UNCHANGED varsParams
      /\ UNCHANGED varsCosts
      /\ UNCHANGED varsConv

\* { ...llm.userParameters, ...partialUserParameters }
SpreadUserParameters(userParams, partial) ==
  [defined |-> TRUE,
   values |-> Spread(IF userParams.defined THEN userParams.values ELSE NoValues,
                     partial)]

\* Variant of updateLLMUserParameters: the partial replaces the user's
\* parameters.
updateLLMUserParameters_Replaces(id, partialUserParameters) ==
  /\ llms' = [i \in 1..Len(llms) |->
                IF llms[i].id = id
                  THEN [llms[i] EXCEPT !.userParameters =
                          [defined |-> TRUE, values |-> partialUserParameters]]
                  ELSE llms[i]]
  /\ storeOps' = "updateLLMUserParameters"
  /\ UNCHANGED varsRetrier
  /\ UNCHANGED varsLL
  /\ UNCHANGED varsTiers
  /\ UNCHANGED enqueued
  /\ UNCHANGED varsParams
  /\ UNCHANGED varsCosts
  /\ UNCHANGED varsConv

\* Lines 136-143.
updateLLMUserParameters(id, partialUserParameters) ==
  /\ llms' = [i \in 1..Len(llms) |->
                IF llms[i].id = id
                  THEN [llms[i] EXCEPT !.userParameters =
                          SpreadUserParameters(@, partialUserParameters)]
                  ELSE llms[i]]
  /\ storeOps' = "updateLLMUserParameters"
  /\ UNCHANGED varsRetrier
  /\ UNCHANGED varsLL
  /\ UNCHANGED varsTiers
  /\ UNCHANGED enqueued
  /\ UNCHANGED varsParams
  /\ UNCHANGED varsCosts
  /\ UNCHANGED varsConv

\* Lines 145-152.
deleteLLMUserParameter(id, parameterId) ==
  /\ llms' = [i \in 1..Len(llms) |->
                IF llms[i].id = id /\ llms[i].userParameters.defined
                  THEN [llms[i] EXCEPT !.userParameters.values = Delete(@, parameterId)]
                  ELSE llms[i]]
  /\ storeOps' = "deleteLLMUserParameter"
  /\ UNCHANGED varsRetrier
  /\ UNCHANGED varsLL
  /\ UNCHANGED varsTiers
  /\ UNCHANGED enqueued
  /\ UNCHANGED varsParams
  /\ UNCHANGED varsCosts
  /\ UNCHANGED varsConv

\* getAllModelParameterValues(llm.initialParameters, llm.userParameters).
AllModelParameterValues(llm) ==
  Spread(Spread(LLMImplicitParamersRuntimeFallback, llm.initialParameters),
         IF llm.userParameters.defined THEN llm.userParameters.values ELSE NoValues)

\* The store holds at most two models, of distinct ids.
InitStore ==
  /\ llms \in ListsOf([id \in DLLMIds |-> StoredModels(id)])
  /\ storeOps = "none"
  /\ tier = "DMessage" /\ tpc = "idle" /\ hook = "absent" /\ hookCalls = 0
  /\ callback = "absent" /\ callerSignal = "signal" /\ aixStreaming = FALSE
  /\ dMessage = [fragments |-> << >>, pendingIncomplete |-> TRUE, tokenStopReason |-> "none"]
  /\ stateText = [isNull |-> TRUE, text |-> << >>]
  /\ tierUpdates = << >>
  /\ tierOutcome = "none"
  /\ llpc = "notStarted"
  /\ abortSignal = FALSE
  /\ fragments = << >> /\ genTokenStopReason = "none" /\ reassemblerState = "Streaming"
  /\ wireBacklog = << >> /\ isProcessing = FALSE /\ onUpdate = "absent"
  /\ throttle = 0
  /\ updates = << >> /\ produced = 0 /\ thrown = "none" /\ clientCalls = << >>
  /\ pc = "returned" /\ attemptNumber = 1 /\ aborted = FALSE /\ error = NoError
  /\ rp = NoProfile /\ delayMs = 0 /\ onRetry = "absent" /\ onRetryLog = << >>
  /\ invocations = 0 /\ classified = 0 /\ profilesSeen = {} /\ abortedAt = "never"
  /\ outcome = "pending" /\ rejectedWith = NoError /\ settleCalls = 0
  /\ enqueued = << >>
  /\ ppc = "start" /\ initialParameters = << >> /\ userParameters = << >>
  /\ llmOptionsOverride = << >> /\ llmInterfaces = {} /\ llmParameters = << >>
  /\ aixModel = << >>
  /\ withFallback = << >>
  /\ metricsStore = << >> /\ costs = FALSE
  /\ cpc = "idle" /\ conv = << >>

NextStore ==
  \/ \E serviceId \in DModelsServiceIds, deleteExpiredVendorLlms \in BOOLEAN,
        keepUserEdits \in BOOLEAN :
       \E incoming \in ListsOf([id \in DLLMIds |-> IncomingModels(id, serviceId)]) :
         setLLMs(incoming, serviceId, deleteExpiredVendorLlms, keepUserEdits)
  \/ \E id \in EditedIds, parameterId \in DOMAIN EditedParameterValues :
       updateLLMUserParameters(id, Layer({parameterId}, EditedParameterValues))
  \/ \E id \in EditedIds, parameterId \in DOMAIN EditedParameterValues :
       deleteLLMUserParameter(id, parameterId)

SpecStore == InitStore /\ [][NextStore]_vars

\* One resolution of the parameters of a call; nothing else is running.
InitParamsOnly ==
  /\ InitParams
  /\ tier = "DMessage" /\ tpc = "start" /\ hook = "absent" /\ hookCalls = 0
  /\ callback = "absent" /\ callerSignal = "signal" /\ aixStreaming = FALSE
  /\ dMessage = [fragments |-> << >>, pendingIncomplete |-> TRUE, tokenStopReason |-> "none"]
  /\ stateText = [isNull |-> TRUE, text |-> << >>]
  /\ tierUpdates = << >> /\ tierOutcome = "none"
  /\ llpc = "notStarted" /\ abortSignal = FALSE
  /\ fragments = << >> /\ genTokenStopReason = "none" /\ reassemblerState = "Streaming"
  /\ wireBacklog = << >> /\ isProcessing = FALSE /\ onUpdate = "absent"
  /\ throttle = 0
  /\ updates = << >> /\ produced = 0 /\ thrown = "none" /\ clientCalls = << >>
  /\ pc = "returned" /\ attemptNumber = 1 /\ aborted = FALSE /\ error = NoError
  /\ rp = NoProfile /\ delayMs = 0 /\ onRetry = "absent" /\ onRetryLog = << >>
  /\ invocations = 0 /\ classified = 0 /\ profilesSeen = {} /\ abortedAt = "never"
  /\ outcome = "pending" /\ rejectedWith = NoError /\ settleCalls = 0
  /\ enqueued = << >>
  /\ metricsStore = << >> /\ costs = FALSE
  /\ cpc = "idle" /\ conv = << >>
  /\ llms = << >> /\ storeOps = "none"

NextParams ==
  \/ getAllModelParameterValues
  \/ aixCreateModelFromLLMOptions
  \/ ResolveWithFallback

SpecParams == InitParamsOnly /\ [][NextParams]_vars

\* A fresh reassembler and its accumulator; no call of a tier is running.
InitReassemblerOnly ==
  /\ llpc = "iterating"
  /\ abortSignal = FALSE
  /\ fragments = << >>
  /\ genTokenStopReason = "none"
  /\ reassemblerState = "Streaming"
  /\ wireBacklog = << >>
  /\ isProcessing = FALSE
  /\ onUpdate \in {"absent", "returns"}
  /\ throttle \in {0, 1}
  /\ updates = << >>
  /\ produced = 0
  /\ thrown = "none"
  /\ clientCalls = << >>
  /\ pc = "returned" /\ attemptNumber = 1 /\ aborted = FALSE /\ error = NoError
  /\ rp = NoProfile /\ delayMs = 0 /\ onRetry = "absent" /\ onRetryLog = << >>
  /\ invocations = 0 /\ classified = 0 /\ profilesSeen = {} /\ abortedAt = "never"
  /\ outcome = "pending" /\ rejectedWith = NoError /\ settleCalls = 0
  /\ tier = "DMessage" /\ tpc = "start" /\ hook = "absent" /\ hookCalls = 0
  /\ callback = "absent" /\ callerSignal = "signal" /\ aixStreaming = FALSE
  /\ dMessage = [fragments |-> << >>, pendingIncomplete |-> TRUE, tokenStopReason |-> "none"]
  /\ stateText = [isNull |-> TRUE, text |-> << >>]
  /\ tierUpdates = << >> /\ tierOutcome = "none"
  /\ enqueued = << >>
  /\ ppc = "start" /\ initialParameters = << >> /\ userParameters = << >>
  /\ llmOptionsOverride = << >> /\ llmInterfaces = {} /\ llmParameters = << >>
  /\ aixModel = << >>
  /\ withFallback = << >>
  /\ metricsStore = << >> /\ costs = FALSE
  /\ cpc = "idle" /\ conv = << >>
  /\ llms = << >> /\ storeOps = "none"

NextReassembler ==
  \/ \E particle \in Particles : enqueueWireParticle(particle)
  \/ \E emit \in BOOLEAN : ProcessParticle(emit)
  \/ UpdateReturns
  \/ setClientAborted
  \/ \E message \in ExceptedMessages : setClientExcepted(message)
  \/ finalizeAccumulator

SpecReassembler == InitReassemblerOnly /\ [][NextReassembler]_vars

(***************************************************************************)
(* Properties of the retrier.                                              *)
(***************************************************************************)
\* The executor has ended (returned after settling, or thrown).
Terminated == pc \in {"returned", "threw"}

\* error and rp belong to the same failed attempt: some error has been
\* classified and no later error was forwarded unclassified.
RpIsOfError == classified > 0 /\ abortedAt \notin {"before", "operation"}

\* C1: with no cancellation and every attempt failing with errors of one
\* retry profile, the operation is invoked exactly maxAttempts times (3 for
\* network, 4 for server) and the promise then rejects with the last error.
C1_ExactlyMaxAttemptsThenReject ==
  \A p \in {"network", "server"} :
    (Terminated /\ abortedAt = "never" /\ outcome # "resolved" /\ profilesSeen = {p})
      => /\ invocations = (IF p = "network" THEN 3 ELSE 4)
         /\ invocations = RETRY_PROFILES[p].maxAttempts
         /\ outcome = "rejected"
         /\ rejectedWith = error

\* C2: when the signal fires during a backoff wait, the promise rejects with
\* the error of the attempt that triggered the wait (a retryable fetcher
\* error, not an abort error) and the operation is not invoked again.
C2_AbortDuringDelay ==
  abortedAt = "delay"
    => /\ pc \in {"delay", "returned"}
       /\ invocations = attemptNumber - 1
       /\ error.kind = "TRPCFetcherError"
       /\ pc = "returned"
            => /\ outcome = "rejected"
               /\ rejectedWith = error
               /\ settleCalls = 1

C2_Witness ==
  abortedAt = "delay" /\ pc = "returned" /\ outcome = "rejected" /\ invocations = 2

\* C3: the classifier maps a connection error to the network profile
\* (500 ms, 8000 ms, 0.25, 3), an HTTP 502/503 to the server profile
\* (1000 ms, 10000 ms, 0.5, 4), and every input other than an HTTP 429 or
\* these to "not retryable".
C3_Classifier ==
  RpIsOfError =>
    LET isFetcher == error.kind = "TRPCFetcherError"
        isConn    == isFetcher /\ error.category = "connection"
        isHttp    == isFetcher /\ error.category = "http"
    IN /\ isConn => rp = "network"
       /\ (isHttp /\ error.httpStatus \in {502, 503}) => rp = "server"
       /\ (~isConn /\ ~(isHttp /\ error.httpStatus \in {429, 502, 503})) => rp = NoProfile
       /\ rp = "network" =>
            RETRY_PROFILES[rp] = [baseDelayMs |-> 500, maxDelayMs |-> 8000,
                                  jitterFactor |-> 25, maxAttempts |-> 3]
       /\ rp = "server" =>
            RETRY_PROFILES[rp] = [baseDelayMs |-> 1000, maxDelayMs |-> 10000,
                                  jitterFactor |-> 50, maxAttempts |-> 4]

C3_Witness ==
  /\ RpIsOfError
  /\ error.kind = "TRPCFetcherError" /\ error.category = "parse" /\ error.httpStatus = 503
  /\ rp = NoProfile

\* The messages of the model that a denylist pattern matches:
\*   2 "...current quota", 3 "QUOTA exceeded", 4 "Billing hard limit reached",
\*   5 "Request too large for o3", 6 "Limit 30000, Requested 56108",
\*   8 "rate limit of 0 input tokens per minute",
\*   10 "Insufficient balance or no resource package".
\* Not matched: 1, 7 (no digits after "limit "), 9 and 11 (letter case
\* differs from the string pattern), 12.
PermanentConditionMessages == {2, 3, 4, 5, 6, 8, 10}

\* C4: an HTTP 429 is not retryable exactly when its message matches a
\* denylist pattern; every other 429 gets the server profile.
C4_Denylist429 ==
  (RpIsOfError /\ error.kind = "TRPCFetcherError" /\ error.category = "http"
     /\ error.httpStatus = 429)
    => /\ rp = NoProfile <=> error.message \in PermanentConditionMessages
       /\ rp # NoProfile => rp = "server"

C4_Witness ==
  /\ RpIsOfError
  /\ error.category = "http" /\ error.httpStatus = 429 /\ error.message = 3
  /\ rp = NoProfile

\* A 429 whose message contains "quota" in some letter case.
IsQuota429(e) ==
  /\ e.kind = "TRPCFetcherError" /\ e.category = "http" /\ e.httpStatus = 429
  /\ e.message \in {2, 3}

\* C5: an error classified as not retryable (such as a quota 429) rejects
\* the promise with that error at once: no notification, no wait, no further
\* invocation; on the first attempt the operation ran exactly once.
C5_NotRetryableRejectsAtOnce ==
  (RpIsOfError /\ (rp = NoProfile \/ IsQuota429(error)))
    => /\ pc = "returned"
       /\ outcome = "rejected"
       /\ rejectedWith = error
       /\ settleCalls = 1
       /\ invocations = attemptNumber
       /\ Len(onRetryLog) = (IF onRetry = "absent" THEN 0 ELSE attemptNumber - 1)
       /\ attemptNumber = 1 => (invocations = 1 /\ onRetryLog = << >>)

C5_Witness ==
  /\ RpIsOfError /\ IsQuota429(error) /\ error.message = 3
  /\ pc = "returned" /\ invocations = 1 /\ onRetry = "returns"

\* C6: when an attempt fails with the signal already set, the promise
\* rejects with that error without classification, notification, wait or
\* another attempt, even for a retryable error with attempts left.
C6_FailureWhileAborted ==
  (abortedAt \in {"before", "operation"} /\ pc # "operation")
    => /\ pc = "returned"
       /\ settleCalls = 1
       /\ outcome = "rejected"
            => /\ rejectedWith = error
               /\ classified = attemptNumber - 1
               /\ invocations = attemptNumber
               /\ Len(onRetryLog) = (IF onRetry = "absent" THEN 0 ELSE attemptNumber - 1)

C6_Witness ==
  /\ abortedAt = "operation" /\ pc = "returned" /\ outcome = "rejected"
  /\ error.kind = "TRPCFetcherError" /\ error.httpStatus = 503 /\ error.category = "http"
  /\ attemptNumber = 2

\* C7: the delay d waited before attempt n >= 2 under (base, max, jitter)
\* satisfies base*2^(n-2)*(1-jitter) <= d <= min(max, base*2^(n-2))*(1+jitter)
\* and d >= 1 (jitter in hundredths, both sides scaled by 100).
C7_DelayBounds ==
  pc = "delay" =>
    LET p == RETRY_PROFILES[rp]
        n == attemptNumber
    IN /\ n >= 2
       /\ p.baseDelayMs * Pow2(n - 2) * (100 - p.jitterFactor) <= 100 * delayMs
       /\ 100 * delayMs <= Min(p.maxDelayMs, p.baseDelayMs * Pow2(n - 2)) * (100 + p.jitterFactor)
       /\ delayMs >= 1

C7_Witness ==
  pc = "delay" /\ attemptNumber = 4 /\ rp = "server" /\ delayMs = 6000

\* C8: the promise settles, and settles exactly once, whatever the operation,
\* the signal and the callback do (the callback returning or raising): when
\* the executor has ended, exactly one resolve or reject has been made.
C8_SettlesExactlyOnce ==
  /\ settleCalls <= 1
  /\ Terminated => (settleCalls = 1 /\ outcome # "pending")

\* The maxAttempts of the profile of an error, read off the classification
\* table: 3 for a connection failure, 4 for the retried HTTP statuses.
MaxAttemptsFor(e) == IF e.category = "connection" THEN 3 ELSE 4

\* C9: every invocation after the first is preceded by exactly one
\* notification, issued after failed attempt k and before the wait, which
\* reports attempt k+1 (2, 3, ... and never above maxAttempts), the profile's
\* maxAttempts, the cause of the error and the delay then waited.
C9_RetryNotifications ==
  onRetry # "absent" =>
    /\ Len(onRetryLog) = attemptNumber - 1
    /\ pc = "operation" => invocations = Len(onRetryLog) + 1
    /\ pc = "delay" => invocations = Len(onRetryLog)
    /\ \A i \in 1..Len(onRetryLog) :
         /\ onRetryLog[i].attempt = i + 1
         /\ onRetryLog[i].attempt <= onRetryLog[i].maxAttempts
    /\ pc \in {"delay", "threw"} =>
         LET last == onRetryLog[Len(onRetryLog)]
         IN /\ last.attempt = invocations + 1
            /\ last.maxAttempts = MaxAttemptsFor(error)
            /\ last.delayMs = delayMs
            /\ last.causeHttp = error.httpStatus
            /\ last.causeConn = error.category

C9_Witness ==
  /\ onRetry = "returns" /\ pc = "operation" /\ invocations = 3
  /\ Len(onRetryLog) = 2 /\ onRetryLog[2].attempt = 3 /\ onRetryLog[2].causeHttp = 429

(***************************************************************************)
(* Properties of the accumulator-level tier.                               *)
(***************************************************************************)
\* The error fragment Tier 0 appends for a transport failure.
IsTier0ErrorFragment(f) == f = ErrorFragment("An unexpected error occurred")

\* C10: when the progress callback does not raise, the accumulator-level
\* call never rejects: a raise of the transport call or of the particle
\* iteration, or a cancellation, ends either in a clean abort or in an
\* appended error fragment, and the call still finalizes and returns.
C10_Tier0NeverRejects ==
  onUpdate # "throwsOnDone" =>
    /\ llpc # "rejected"
    /\ llpc = "returned" \/ ENABLED NextLL
    /\ llpc \in {"finalUpdate", "returned"} =>
         /\ clientCalls # << >>
         /\ clientCalls[Len(clientCalls)] = "finalizeAccumulator"
         /\ \A i \in 1..Len(fragments) : ~fragments[i].open
    /\ (llpc = "returned" /\ thrown # "none") =>
         \/ /\ reassemblerState = "Aborted"
            /\ genTokenStopReason = "client-abort"
            /\ \A i \in 1..Len(fragments) : ~IsTier0ErrorFragment(fragments[i])
         \/ /\ reassemblerState = "Excepted"
            /\ fragments # << >>
            /\ IsTier0ErrorFragment(fragments[Len(fragments)])
    /\ (llpc = "returned" /\ thrown = "none") => reassemblerState = "Completed"

C10_Witness ==
  /\ llpc = "returned" /\ onUpdate = "returns" /\ thrown = "Error"
  /\ reassemblerState = "Excepted" /\ Len(fragments) = 2

\* The call has left its try/catch: finalizeAccumulator() has run.
Finalized == llpc \in {"finalUpdate", "returned", "rejected"}

\* The calls made on the reassembler once a call has finalized.
ReassemblerCallsAllowed ==
  { << "finalizeAccumulator" >>,
    << "setClientAborted", "finalizeAccumulator" >>,
    << "setClientExcepted", "finalizeAccumulator" >> }

\* C11: when the transport call or the particle loop raises, the reassembler
\* is told setClientAborted if the signal is set at that moment or the error
\* is an AbortError, and then no error fragment is appended; otherwise it is
\* told setClientExcepted with a message.  At most one of the two is called,
\* at most once, and finalizeAccumulator is called exactly once afterwards on
\* every path.
C11_CatchTellsReassembler ==
  /\ [](/\ ~Finalized => clientCalls = << >>
        /\ Finalized => clientCalls \in ReassemblerCallsAllowed
        /\ llpc = "catchAbort" => (abortSignal \/ thrown = "AbortError")
        /\ llpc = "catchExcept" => thrown = "Error"
        /\ (Finalized /\ thrown = "none") => clientCalls = << "finalizeAccumulator" >>
        /\ (Finalized /\ thrown = "AbortError") => clientCalls[1] = "setClientAborted"
        /\ (Finalized /\ thrown = "Error" /\ ~abortSignal) =>
             clientCalls[1] = "setClientExcepted"
        /\ (Finalized /\ thrown # "none") => Len(clientCalls) = 2
        /\ (Finalized /\ clientCalls[1] = "setClientAborted") =>
             /\ reassemblerState = "Aborted"
             /\ \A i \in 1..Len(fragments) : ~IsTier0ErrorFragment(fragments[i])
        /\ (Finalized /\ clientCalls[1] = "setClientExcepted") =>
             /\ reassemblerState = "Excepted"
             /\ IsTier0ErrorFragment(fragments[Len(fragments)]))
  /\ [][(thrown = "none" /\ thrown' # "none") =>
          llpc' = (IF abortSignal \/ thrown' = "AbortError" THEN "catchAbort"
                                                            ELSE "catchExcept")]_vars

\* An AbortError was raised while the signal was not set, and the call
\* finalized as aborted.
C11_Witness ==
  /\ Finalized /\ thrown = "AbortError" /\ ~abortSignal
  /\ clientCalls = << "setClientAborted", "finalizeAccumulator" >>
  /\ fragments # << >>

\* C12: given a progress callback, exactly one invocation has isDone = true;
\* it comes after finalizeAccumulator, it is the last invocation, every
\* earlier one has isDone = false, and it is delivered at every throttle
\* level and on the completed, aborted and excepted paths, also when the
\* accumulator holds no fragment.
C12_OneFinalUpdate ==
  onUpdate # "absent" =>
    /\ ~Finalized => \A i \in 1..Len(updates) : ~updates[i].isDone
    /\ Finalized =>
         /\ updates # << >>
         /\ updates[Len(updates)] = Update(TRUE, fragments)
         /\ \A i \in 1..(Len(updates) - 1) : ~updates[i].isDone
         /\ clientCalls[Len(clientCalls)] = "finalizeAccumulator"
         /\ \A i \in 1..Len(fragments) : ~fragments[i].open

\* The final update of an aborted call with an empty accumulator, throttled.
C12_Witness ==
  /\ onUpdate = "returns" /\ llpc = "returned" /\ throttle = 1
  /\ reassemblerState = "Aborted" /\ fragments = << >>
  /\ updates = << Update(TRUE, << >>) >>

\* C13: a notification with isDone = false is delivered only when the
\* accumulator holds at least one fragment.
C13_InterimUpdatesCarryContent ==
  \A i \in 1..Len(updates) : ~updates[i].isDone => Len(updates[i].fragments) >= 1

\* Two particles were applied unthrottled and only the second was notified:
\* the first left the accumulator empty.
C13_Witness ==
  /\ throttle = 0 /\ onUpdate = "returns" /\ produced = 2 /\ wireBacklog = << >>
  /\ Len(updates) = 1 /\ ~updates[1].isDone /\ Len(fragments) = 1

(***************************************************************************)
(* Properties of the message-level tier and of the text-only facade.       *)
(***************************************************************************)
\* The tier has returned or thrown.
TierEnded == tpc \in {"returned", "threw"}

\* The notifications with isDone = true, by their positions.
DoneUpdates == { i \in 1..Len(tierUpdates) : tierUpdates[i].isDone }

\* The first notification of Tier 1.
InitialUpdate ==
  [isDone |-> FALSE, fragments |-> << >>, pendingIncomplete |-> TRUE, text |-> << >>]

\* C14 as stated: every Tier 1 call given a progress callback delivers
\* exactly one notification with isDone = true, as its last notification,
\* for every outcome of the rate-limit hook (delay or reject) and of the
\* transport (completed, cancelled, failed).
C14_OneDoneNotification ==
  (tier = "DMessage" /\ callback # "absent" /\ TierEnded) =>
    DoneUpdates = { Len(tierUpdates) }

\* C14 amended: a Tier 1 call given a progress callback that returns has
\* delivered exactly one notification with isDone = true, as its last one,
\* for every outcome of the transport; a call whose rate-limit hook rejects
\* throws after the initial notification with no isDone = true notification.
\* No call is left without a next step before it has ended.
C14_OneDoneNotificationUnlessHookRejects ==
  (tier = "DMessage" /\ callback # "absent") =>
    /\ tpc \in {"finalUpdate", "returned"} => DoneUpdates = { Len(tierUpdates) }
    /\ tpc \notin {"finalUpdate", "returned"} => DoneUpdates = {}
    /\ tpc = "threw" =>
         /\ hook = "rejects"
         /\ tierOutcome = "Error:hook"
         /\ tierUpdates = << InitialUpdate >>
    /\ hook # "rejects" => tpc # "threw"
    /\ ~TierEnded => ENABLED NextTiers

\* A call whose transport failed after the hook's delay returned, its only
\* isDone = true notification being the last of three.
C14_Witness ==
  /\ tier = "DMessage" /\ callback = "returns" /\ hook = "resolves"
  /\ tpc = "returned" /\ thrown = "Error"
  /\ Len(tierUpdates) = 3 /\ DoneUpdates = {3}

\* C15: in Tier 1 the first notification is delivered and awaited before
\* the rate-limit hook and the transport call start; it has isDone = false,
\* no fragments and pendingIncomplete = true.
C15_InitialUpdateFirst ==
  (tier = "DMessage" /\ callback # "absent") =>
    /\ tpc = "start" => (tierUpdates = << >> /\ hookCalls = 0 /\ llpc = "notStarted")
    /\ tpc = "initialUpdate" =>
         (tierUpdates = << InitialUpdate >> /\ hookCalls = 0 /\ llpc = "notStarted")
    /\ (hookCalls > 0 \/ llpc # "notStarted") =>
         (tierUpdates # << >> /\ tierUpdates[1] = InitialUpdate)

\* The hook is running and the initial notification is the only one so far.
C15_Witness ==
  /\ tier = "DMessage" /\ callback = "returns" /\ tpc = "rateLimit" /\ hookCalls = 1
  /\ tierUpdates = << InitialUpdate >>

\* C16: in Tier 1 pendingIncomplete is true in every notification with
\* isDone = false, false in the isDone = true notification and in the
\* returned object, and never goes back from false to true.
C16_PendingIncomplete ==
  /\ [](tier = "DMessage" =>
          /\ \A i \in 1..Len(tierUpdates) :
               tierUpdates[i].pendingIncomplete = ~tierUpdates[i].isDone
          /\ tierOutcome = "returned" => ~dMessage.pendingIncomplete)
  /\ [][~dMessage.pendingIncomplete => ~dMessage'.pendingIncomplete]_vars

C16_Witness ==
  /\ tier = "DMessage" /\ tierOutcome = "returned" /\ callback = "returns"
  /\ Len(tierUpdates) = 4 /\ ~dMessage.pendingIncomplete
  /\ Len(dMessage.fragments) = 2

IsPrefix(earlier, later) ==
  /\ Len(earlier) <= Len(later)
  /\ \A i \in 1..Len(earlier) : earlier[i] = later[i]

\* The list later holds every fragment of the list earlier, with at least
\* the same text.
KeepsContent(earlier, later) ==
  /\ Len(earlier) <= Len(later)
  /\ \A i \in 1..Len(earlier) :
       /\ later[i].ft = earlier[i].ft
       /\ IsPrefix(earlier[i].text, later[i].text)

\* C18: within one call the fragment lists of successive notifications, of
\* Tier 0 and of Tier 1, and of the result never lose content, also when a
\* transport failure or a cancellation ends the call.
C18_ContentNeverLost ==
  /\ \A i, j \in 1..Len(updates) :
       i < j => KeepsContent(updates[i].fragments, updates[j].fragments)
  /\ \A i \in 1..Len(updates) : KeepsContent(updates[i].fragments, fragments)
  /\ tier = "DMessage" =>
       /\ \A i, j \in 1..Len(tierUpdates) :
            i < j => KeepsContent(tierUpdates[i].fragments, tierUpdates[j].fragments)
       /\ \A i \in 1..Len(tierUpdates) :
            KeepsContent(tierUpdates[i].fragments, dMessage.fragments)
       /\ KeepsContent(dMessage.fragments, fragments)
       /\ tierOutcome = "returned" => dMessage.fragments = fragments

\* Streamed text stays in the notifications and in the result of a call
\* whose transport failed afterwards.
C18_Witness ==
  /\ tier = "DMessage" /\ tierOutcome = "returned" /\ thrown = "Error"
  /\ Len(tierUpdates) = 3 /\ Len(tierUpdates[2].fragments) = 1
  /\ Len(dMessage.fragments) = 2 /\ dMessage.fragments[1].ft = "text"

\* C19: Tier 2 rejects, and never returns a string, whenever the result
\* holds a tool-invocation fragment, streaming or not.
C19_TextRejectsToolInvocation ==
  (tier = "Text" /\ HasToolInvocation(fragments)) =>
    /\ tpc \notin {"finalUpdate", "returned"}
    /\ tierOutcome \in {"none", "Error:tool"}
    /\ DoneUpdates = {}
    /\ llpc = "rejected" => (tpc = "threw" /\ aixStreaming)
    /\ TierEnded => (tpc = "threw" /\ tierOutcome = "Error:tool")
    /\ ~TierEnded => ENABLED NextTiers

\* The non-streaming call threw for a tool invocation that followed text.
C19_Witness ==
  /\ tier = "Text" /\ ~aixStreaming /\ tierOutcome = "Error:tool"
  /\ Len(fragments) = 2 /\ fragments[2].ft = "tool_invocation"

\* The step in which Tier 0 returns its accumulator to Tier 2.
Tier0ReturnsToText ==
  /\ tier = "Text"
  /\ tpc \in {"ll", "llFinalCallback"}
  /\ tpc' \notin {"ll", "llFinalCallback"}
  /\ llpc' = "returned"

NoTextFragment(fs) == \A i \in 1..Len(fs) : fs[i].ft # "text"

\* Tier 0 has returned to Tier 2 and Tier 2 has gone on from there.
TextPastLL == tier = "Text" /\ tpc \in {"finalUpdate", "returned", "threw"} /\ llpc = "returned"

\* C21: Tier 2 raises an error, and returns no string, whenever the call was
\* not cancelled and no text was produced: for every final accumulator
\* without text content, with zero fragments or with fragments that carry no
\* text.
C21_EmptyResultThrows ==
  (TextPastLL /\ ~abortSignal /\ NoTextFragment(fragments)) =>
    (tpc = "threw" /\ tierOutcome # "returned")

\* The messages of the error fragments of fs, in fragment order.
ErrorMessages(fs) ==
  LET errors == SelectSeq(fs, LAMBDA f : f.ft = "error")
  IN [i \in 1..Len(errors) |-> errors[i].text[1]]

\* The message of the Error of lines 340: it carries the messages of all
\* error fragments in fragment order, separated by line feeds.
CarriesAllErrorMessages(fs) ==
  LET message == errorMessage(fs)
  IN /\ SelectSeq(message, LAMBDA piece : piece # "\n") = ErrorMessages(fs)
     /\ Len(message) = 2 * Len(ErrorMessages(fs)) - 1

HasErrorFragment(fs) == \E i \in 1..Len(fs) : fs[i].ft = "error"

\* The call that was not cancelled has ended with a final accumulator fs.
TextEndedNotCancelled ==
  tier = "Text" /\ tpc \in {"finalUpdate", "returned", "threw"} /\ ~abortSignal
    /\ llpc \in {"returned", "rejected"}

RECURSIVE ContentPieces(_)
ContentPieces(fs) ==
  IF fs = << >> THEN << >>
  ELSE (IF Head(fs).ft \in {"text", "error"} THEN Head(fs).text ELSE << >>)
         \o ContentPieces(Tail(fs))

\* C23: Tier 2 calls the text callback with isDone = true at most once:
\* exactly once, last and with the returned string when the call returns,
\* never when it throws.  Every other call has isDone = false and carries
\* the concatenation of the text and error content accumulated so far, and
\* none is made before the first fragment exists.
C23_TextCallback ==
  /\ [](tier = "Text" =>
          /\ callback = "absent" => tierUpdates = << >>
          /\ DoneUpdates \subseteq { Len(tierUpdates) }
          /\ (callback # "absent" /\ tpc \in {"finalUpdate", "returned"}) =>
               /\ DoneUpdates = { Len(tierUpdates) }
               /\ ~stateText.isNull
               /\ tierUpdates[Len(tierUpdates)].text = stateText.text
          /\ tpc \notin {"finalUpdate", "returned"} => DoneUpdates = {})
  /\ [][(tier = "Text" /\ tierUpdates' # tierUpdates) =>
          /\ Len(tierUpdates') = Len(tierUpdates) + 1
          /\ SubSeq(tierUpdates', 1, Len(tierUpdates)) = tierUpdates
          /\ LET update == tierUpdates'[Len(tierUpdates')] IN
               /\ fragments # << >>
               /\ SelectSeq(update.text, LAMBDA piece : piece # "\n") = ContentPieces(fragments)
               /\ update.isDone => tpc' = "finalUpdate"]_vars

\* A streamed call returned: two interim calls, then the final one with the
\* returned string.
C23_Witness ==
  /\ tier = "Text" /\ tierOutcome = "returned" /\ Len(tierUpdates) = 3
  /\ DoneUpdates = {3} /\ tierUpdates[3].text = << "Hello", " world" >>

\* The parameter layers from the lowest to the highest precedence; the
\* llmRef key of the per-call override does not count.
ParameterLayers ==
  << LLMImplicitParamersRuntimeFallback, initialParameters, userParameters >>
    \o (IF llmOptionsOverride.defined
          THEN << [k \in DOMAIN llmOptionsOverride.values \ {"llmRef"} |->
                     llmOptionsOverride.values[k]] >>
          ELSE << >>)

\* The value of the highest layer that has the key; undefined when none has.
HighestLayerValue(key) ==
  LET having == { i \in 1..Len(ParameterLayers) : key \in DOMAIN ParameterLayers[i] }
  IN IF having = {} THEN "undefined"
     ELSE ParameterLayers[CHOOSE i \in having : \A j \in having : j <= i][key]

\* C24: for every key but the model reference the resolved value is that of
\* the highest layer that contains the key, in the order fallback < initial
\* values < user values < per-call override; with temperatures 0.5 / 0.7 /
\* 0.9 / 1.1 the result is 1.1 and, taking the layers off from the top, 0.9,
\* 0.7 and 0.5 (for a model without the no-temperature hotfix).
C24_LayerPrecedence ==
  ppc = "created" =>
    /\ LLM_IF_HOTFIX_NoTemperature \notin llmInterfaces =>
         Get(aixModel, "temperature") = HighestLayerValue("llmTemperature")
    /\ Get(aixModel, "topP") = HighestLayerValue("llmTopP")
    /\ IF Falsy(HighestLayerValue("llmResponseTokens"))
         THEN "maxTokens" \notin DOMAIN aixModel
         ELSE aixModel.maxTokens = HighestLayerValue("llmResponseTokens")
    /\ LLM_IF_HOTFIX_NoTemperature \notin llmInterfaces =>
         LET temperatureIn(o) == "llmTemperature" \in DOMAIN o
             override == llmOptionsOverride.defined /\ temperatureIn(llmOptionsOverride.values)
         IN Get(aixModel, "temperature") =
              IF override THEN "1.1"
              ELSE IF temperatureIn(userParameters) THEN userParameters.llmTemperature
              ELSE IF temperatureIn(initialParameters) THEN "0.7"
              ELSE "0.5"

\* All four layers have a temperature, and the one of the override is sent.
C24_Witness ==
  /\ ppc = "created"
  /\ LLM_IF_HOTFIX_NoTemperature \notin llmInterfaces
  /\ Get(initialParameters, "llmTemperature") = "0.7"
  /\ Get(userParameters, "llmTemperature") = "0.9"
  /\ llmOptionsOverride.defined
  /\ Get(llmOptionsOverride.values, "llmTemperature") = "1.1"
  /\ aixModel.temperature = "1.1"

\* The llmRef of the base layers: the user's, else the model's initial one.
BaseLlmRef ==
  IF "llmRef" \in DOMAIN userParameters THEN userParameters.llmRef
  ELSE Get(initialParameters, "llmRef")

\* C25: the model id is the llmRef of the base parameter layers whatever the
\* per-call override contains: its llmRef key is ignored, the caller's
\* override object is left as it was, and without an llmRef in the base
\* layers the call throws.
C25_OverrideNeverSetsModelRef ==
  /\ [](/\ ppc = "created" => aixModel.id = BaseLlmRef /\ BaseLlmRef # "undefined"
        /\ ppc = "threw" => BaseLlmRef = "undefined"
        /\ (ppc \in {"created", "threw"} /\ BaseLlmRef = "undefined") => ppc = "threw")
  /\ [][llmOptionsOverride' = llmOptionsOverride]_vars

\* The override names another model and the base layers' one is sent.
C25_Witness ==
  /\ ppc = "created"
  /\ llmOptionsOverride.defined
  /\ Get(llmOptionsOverride.values, "llmRef") = "model-override"
  /\ aixModel.id = "model-initial"

(***************************************************************************)
(* Properties of the reassembler.                                          *)
(***************************************************************************)
\* The terminal state the first call of calls leads to.
StateAfter(calls) ==
  IF calls = << >> THEN "Streaming"
  ELSE CASE calls[1] = "setClientAborted" -> "Aborted"
         [] calls[1] = "setClientExcepted" -> "Excepted"
         [] calls[1] = "finalizeAccumulator" -> "Completed"

SameContent(earlier, later) ==
  /\ Len(earlier) = Len(later)
  /\ \A i \in 1..Len(earlier) :
       later[i].ft = earlier[i].ft /\ later[i].text = earlier[i].text

\* C28: setClientAborted marks the stop reason as the user's cancellation
\* and leaves the fragment list as it is: the fragments are kept, no error
\* fragment is appended, an empty accumulator stays empty; a second call
\* changes nothing further.
C28_AbortedKeepsFragments ==
  [][setClientAborted =>
       /\ fragments' = fragments
       /\ genTokenStopReason' = "client-abort"
       /\ reassemblerState' = "Aborted"
       /\ reassemblerState = "Aborted" =>
            /\ genTokenStopReason' = genTokenStopReason
            /\ UNCHANGED << reassemblerState, updates, wireBacklog, isProcessing >>]_vars

\* Called twice on an accumulator with a text and a tool fragment.
C28_Witness ==
  /\ clientCalls = << "setClientAborted", "setClientAborted" >>
  /\ Len(fragments) = 2 /\ fragments[1].ft = "text"
  /\ genTokenStopReason = "client-abort" /\ reassemblerState = "Aborted"

\* C29: setClientExcepted(message) appends exactly one error fragment with
\* the message after the fragments accumulated so far, which stay as they
\* are and in their order; it never replaces or removes content.
C29_ExceptedAppendsOneError ==
  [][\A message \in ExceptedMessages :
       setClientExcepted(message) =>
         /\ Len(fragments') = Len(fragments) + 1
         /\ SameContent(fragments, SubSeq(fragments', 1, Len(fragments)))
         /\ fragments'[Len(fragments')].ft = "error"
         /\ fragments'[Len(fragments')].text = << message >>]_vars

\* Excepted after a text and a tool fragment.
C29_Witness ==
  /\ clientCalls = << "setClientExcepted" >>
  /\ Len(fragments) = 3 /\ fragments[1].ft = "text" /\ fragments[2].ft = "tool_invocation"
  /\ fragments[3] = ErrorFragment("Unknown error")

\* The particles are text deltas followed by one done marker.
TextDeltasThenDone(particles) ==
  /\ Len(particles) >= 2
  /\ particles[Len(particles)].p = "done"
  /\ \A i \in 1..(Len(particles) - 1) : particles[i].p = "text"

\* C27: text deltas followed by a done marker, enqueued against a fresh
\* accumulator, give exactly one text fragment whose content is the deltas
\* in the order enqueued ("Hello", " world", done: "Hello world") and exactly
\* one terminal notification with isDone = true.
C27_DeltasMakeOneTextFragment ==
  (Finalized /\ thrown = "none" /\ TextDeltasThenDone(enqueued)) =>
    /\ Len(fragments) = 1
    /\ fragments[1].ft = "text"
    /\ fragments[1].text = [i \in 1..(Len(enqueued) - 1) |-> enqueued[i].t]
    /\ enqueued = << [p |-> "text", t |-> "Hello"], [p |-> "text", t |-> " world"],
                     [p |-> "done", t |-> ""] >>
         => fragments[1].text = << "Hello", " world" >>
    /\ onUpdate # "absent" =>
         { i \in 1..Len(updates) : updates[i].isDone } = { Len(updates) }

C27_Witness ==
  /\ llpc = "returned" /\ thrown = "none" /\ onUpdate = "returns"
  /\ enqueued = << [p |-> "text", t |-> "Hello"], [p |-> "text", t |-> " world"],
                   [p |-> "done", t |-> ""] >>
  /\ fragments = << [ft |-> "text", text |-> << "Hello", " world" >>, open |-> FALSE] >>
  /\ Len(updates) = 3

\* The fragment list after the particles have been applied in their order.
RECURSIVE ApplyAll(_)
ApplyAll(particles) ==
  IF particles = << >> THEN << >>
  ELSE ApplyParticle(ApplyAll(SubSeq(particles, 1, Len(particles) - 1)),
                     particles[Len(particles)])

HeartbeatSafeDelayMs == 10000

\* C34: every delay waited between attempts is at most 10000 ms, for both
\* profiles, every attempt number that is reached and every jitter value.
C34_DelaysAtMostTenSeconds ==
  /\ pc = "delay" => delayMs <= HeartbeatSafeDelayMs
  /\ \A i \in 1..Len(onRetryLog) : onRetryLog[i].delayMs <= HeartbeatSafeDelayMs

\* The longest wait: before the fourth attempt, server profile, jitter +50%.
C34_Witness ==
  /\ pc = "delay" /\ onRetry = "returns" /\ rp = "server" /\ attemptNumber = 4
  /\ delayMs = 6000 /\ onRetryLog[3].delayMs = 6000

\* C36: the attempt counter is shared by the profiles: whatever mix of
\* connection, 502/503 and 429 errors the attempts raise, the operation is
\* invoked at most 4 times and the callback notified at most 3 times, and a
\* failure of the network profile at attempt 3 or later is never retried.
C36_SharedAttemptCounter ==
  /\ [](/\ invocations <= 4
        /\ Len(onRetryLog) <= 3
        /\ attemptNumber <= 4)
  /\ [][(pc = "operation" /\ classified' = classified + 1 /\ rp' = "network"
           /\ attemptNumber >= 3) =>
          /\ pc' = "returned"
          /\ outcome' = "rejected"
          /\ UNCHANGED << attemptNumber, invocations, onRetryLog >>]_vars

\* Two failures of the server profile, then a connection failure at attempt
\* 3, which ended the call.
C36_Witness ==
  /\ pc = "returned" /\ outcome = "rejected" /\ rp = "network"
  /\ attemptNumber = 3 /\ invocations = 3 /\ profilesSeen = {"server", "network"}
  /\ onRetry = "returns" /\ Len(onRetryLog) = 2 /\ onRetryLog[2].maxAttempts = 4

(***************************************************************************)
(* Further properties of the accumulator-level tier.                       *)
(***************************************************************************)
\* The number of particles taken from the backlog so far.
Applied == Len(enqueued) - Len(wireBacklog)

\* The reassembler has not been aborted, excepted or finalized yet.
Reassembling == clientCalls = << >>

\* C31: the particles of one call are applied strictly one at a time and
\* in enqueue order, whatever the rates of producer and consumer: the
\* application of a particle, the progress callback it triggers included,
\* completes before the next one begins, so that no two applications or
\* callbacks overlap.
C31_OneParticleAtATime ==
  /\ [](Reassembling =>
          /\ Applied >= 0
          /\ wireBacklog = SubSeq(enqueued, Applied + 1, Len(enqueued))
          /\ fragments = ApplyAll(SubSeq(enqueued, 1, Applied)))
  /\ [][(wireBacklog' # wireBacklog /\ Len(enqueued') = Len(enqueued)) =>
          /\ ~isProcessing
          /\ wireBacklog' = Tail(wireBacklog)
          /\ fragments' = ApplyParticle(fragments, Head(wireBacklog))]_vars
  /\ [][Len(updates') > Len(updates) => ~isProcessing]_vars

\* The producer is ahead: two particles wait while the callback of the
\* first is awaited.
C31_Witness ==
  /\ llpc = "iterating" /\ isProcessing /\ Len(wireBacklog) = 2 /\ Len(enqueued) = 3
  /\ Len(updates) = 1 /\ Len(fragments) = 1

\* The accumulators after each of the first n particles that left it
\* non-empty, in order.
RECURSIVE ContentAfterEach(_)
ContentAfterEach(n) ==
  IF n = 0 THEN << >>
  ELSE LET fs == ApplyAll(SubSeq(enqueued, 1, n))
       IN ContentAfterEach(n - 1) \o (IF fs = << >> THEN << >> ELSE << fs >>)

\* The list part is the list whole with some of its members left out.
RECURSIVE IsSubsequence(_, _)
IsSubsequence(part, whole) ==
  IF part = << >> THEN TRUE
  ELSE IF whole = << >> THEN FALSE
  ELSE IF Head(part) = Head(whole) THEN IsSubsequence(Tail(part), Tail(whole))
  ELSE IsSubsequence(part, Tail(whole))

\* The fragment lists of the notifications with isDone = false.
InterimContent ==
  LET interim == SelectSeq(updates, LAMBDA u : ~u.isDone)
  IN [i \in 1..Len(interim) |-> interim[i].fragments]

C38_ResolversAgree ==
  withFallback # << >> =>
    \A paramId \in DModelParameterIds :
      withFallback[paramId] = Get(llmParameters, paramId)

(***************************************************************************)
(* Properties of the cost aggregation.                                     *)
(***************************************************************************)
\* The records of this call in the aggregator.
OwnRecords == SelectSeq(metricsStore, LAMBDA record : record.call = "this")

\* C33: a Tier 1 or Tier 2 call adds to the process-wide aggregator at most
\* once, and exactly once when a cost can be computed, after Tier 0 has
\* returned and before the done notification; with the calls running next
\* to it the aggregator holds at most one record per call and nothing is
\* ever taken away.
C33_OneCostRecordPerCall ==
  /\ [](/\ Len(OwnRecords) <= 1
        /\ Len(metricsStore) <= 1 + MaxOtherCalls
        /\ ~costs => OwnRecords = << >>
        /\ OwnRecords # << >> => (llpc = "returned" /\ tpc \in {"finalUpdate", "returned", "threw"})
        /\ (costs /\ llpc = "returned" /\ tpc \in {"finalUpdate", "returned", "threw"}) =>
             Len(OwnRecords) = 1
        /\ DoneUpdates # {} => (costs => Len(OwnRecords) = 1))
  /\ [][IsPrefix(metricsStore, metricsStore')]_vars


\* The Errors among the values thrown.
ThrownErrors == { e \in ThrownValues : ~e.isString }

\* The wrapper catches e, thrown by request building or by the tier.
Catches(e) == Conv_RequestBuildingThrows(e) \/ Conv_Tier1Throws(e)

\* What the wrapper does with a thrown Error, but for the message returned:
\* it returns 'errored', appends the 'Issue' fragment to the fragments
\* present and sets the stop reason 'issue'.
ThrowBecomesIssue ==
  /\ cpc' = "returned"
  /\ conv'.outcome = "errored"
  /\ conv'.lastDMessage.fragments =
       Append(LastDMessage.fragments, ErrorFragment(IssueText(conv'.errorMessage)))
  /\ conv'.lastDMessage.tokenStopReason = "issue"

\* When the tier returned, the outcome is 'aborted' exactly for the stop
\* reason 'client-abort' and 'success' otherwise, error fragments or not.
OutcomeWithoutThrow ==
  (cpc = "returned" /\ tierOutcome = "returned") =>
    /\ conv.errorMessage = "undefined"
    /\ conv.lastDMessage = dMessage
    /\ conv.outcome = (IF dMessage.tokenStopReason = "client-abort" THEN "aborted"
                       ELSE "success")

DistinctIds(models) ==
  \A i, j \in 1..Len(models) : models[i].id = models[j].id => i = j

IdsOf(models) == { models[i].id : i \in 1..Len(models) }

\* The model setLLMs is to store for an incoming one: the incoming data,
\* and with keepUserEdits each edit the store has for this id.
ExpectedAfterSetLLMs(llm, keepUserEdits) ==
  LET existing == FindLLM(llms, llm.id)
      keeps == keepUserEdits /\ existing # 0
  IN  [id |-> llm.id, sId |-> llm.sId, label |-> llm.label,
       initialParameters |-> llm.initialParameters,
       userLabel |-> IF keeps /\ llms[existing].userLabel # "undefined"
                       THEN llms[existing].userLabel ELSE llm.userLabel,
       userHidden |-> IF keeps /\ llms[existing].userHidden # "undefined"
                        THEN llms[existing].userHidden ELSE llm.userHidden,
       userParameters |-> IF keeps /\ llms[existing].userParameters.defined
                            THEN llms[existing].userParameters ELSE llm.userParameters]

\* C39: setLLMs keeps model ids unique: with pairwise distinct ids in the
\* store and in the incoming list, afterwards every incoming id appears
\* exactly once, with the incoming data and (keepUserEdits) the stored
\* userLabel, userHidden and userParameters of that id, and every stored model
\* of another id is unchanged, or removed when deleteExpiredVendorLlms is set
\* and its service id is the given one.
C39_SetLLMsKeepsIdsUnique ==
  /\ [](DistinctIds(llms))
  /\ [][\A serviceId \in DModelsServiceIds, deleteExpiredVendorLlms \in BOOLEAN,
           keepUserEdits \in BOOLEAN :
          \A incoming \in ListsOf([id \in DLLMIds |-> IncomingModels(id, serviceId)]) :
            setLLMs(incoming, serviceId, deleteExpiredVendorLlms, keepUserEdits) =>
              /\ DistinctIds(llms')
              /\ \A i \in 1..Len(incoming) :
                   /\ FindLLM(llms', incoming[i].id) # 0
                   /\ llms'[FindLLM(llms', incoming[i].id)] =
                        ExpectedAfterSetLLMs(incoming[i], keepUserEdits)
              /\ \A k \in 1..Len(llms) :
                   llms[k].id \notin IdsOf(incoming) =>
                     IF deleteExpiredVendorLlms /\ llms[k].sId = serviceId
                       THEN llms[k].id \notin IdsOf(llms')
                       ELSE /\ FindLLM(llms', llms[k].id) # 0
                            /\ llms'[FindLLM(llms', llms[k].id)] = llms[k]
              /\ IdsOf(llms') \subseteq IdsOf(incoming) \cup IdsOf(llms)]_vars

\* setLLMs replaced m1 by the service's new description and kept the user's
\* label, hidden flag and parameters, none of which the incoming model has;
\* m2, of another id, stays.
C39_Witness ==
  /\ storeOps = "setLLMs"
  /\ Len(llms) = 2
  /\ llms[1].id = "m1" /\ llms[1].label = "v2"
  /\ llms[1].userLabel = "Mine" /\ llms[1].userHidden = "true"
  /\ llms[1].userParameters = [defined |-> TRUE, values |-> [llmTemperature |-> "0.9"]]
  /\ llms[2].id = "m2" /\ llms[2].label = "v1" /\ llms[2].sId # llms[1].sId

\* The user's value of a parameter, "absent" for one the user has not set.
UserValue(llm, parameterId) ==
  IF llm.userParameters.defined /\ parameterId \in DOMAIN llm.userParameters.values
    THEN llm.userParameters.values[parameterId]
    ELSE "absent"

\* From llms to llms' only the user's value of parameterId of the models
\* with this id may differ.
OnlyUserParameterChanges(id, parameterId) ==
  /\ Len(llms') = Len(llms)
  /\ \A i \in 1..Len(llms) :
       /\ llms[i].id # id => llms'[i] = llms[i]
       /\ \A f \in {"id", "sId", "label", "initialParameters", "userLabel", "userHidden"} :
            llms'[i][f] = llms[i][f]
       /\ \A q \in DOMAIN EditedParameterValues \ {parameterId} :
            UserValue(llms'[i], q) = UserValue(llms[i], q)

\* C40: updateLLMUserParameters(id, {p: v}) makes the resolved value of p of
\* that model v, over the model's initial value and the runtime fallback; a
\* deleteLLMUserParameter(id, p) after it makes the resolved value the model's
\* initial value again, or the runtime fallback when there is none; both
\* leave every other model and every other user parameter unchanged.
C40_UpdateShadowsDeleteRestores ==
  /\ [][\A id \in EditedIds, parameterId \in DOMAIN EditedParameterValues :
          updateLLMUserParameters(id, Layer({parameterId}, EditedParameterValues)) =>
            /\ OnlyUserParameterChanges(id, parameterId)
            /\ \A i \in 1..Len(llms) :
                 llms[i].id = id =>
                   Get(AllModelParameterValues(llms'[i]), parameterId) =
                     EditedParameterValues[parameterId]]_vars
  /\ [][\A id \in EditedIds, parameterId \in DOMAIN EditedParameterValues :
          deleteLLMUserParameter(id, parameterId) =>
            /\ OnlyUserParameterChanges(id, parameterId)
            /\ \A i \in 1..Len(llms) :
                 llms[i].id = id =>
                   Get(AllModelParameterValues(llms'[i]), parameterId) =
                     (IF parameterId \in DOMAIN llms[i].initialParameters
                        THEN llms[i].initialParameters[parameterId]
                        ELSE Get(LLMImplicitParamersRuntimeFallback, parameterId))]_vars

\* The user's temperature of m1 was deleted: the model's initial 0.7 is
\* resolved again and the user's llmTopP is still there.
C40_Witness ==
  /\ storeOps = "deleteLLMUserParameter"
  /\ Len(llms) >= 1 /\ llms[1].id = "m1"
  /\ llms[1].initialParameters = [llmTemperature |-> "0.7"]
  /\ llms[1].userParameters = [defined |-> TRUE, values |-> [llmTopP |-> "0.95"]]
  /\ Get(AllModelParameterValues(llms[1]), "llmTemperature") = "0.7"
  /\ Get(AllModelParameterValues(llms[1]), "llmTopP") = "0.95"

====
